---- MODULE Spec2Model ----
(***************************************************************************)
(* A model of the core subsystems of the SelfAwareAI repository:           *)
(*   - the autonomy engine of src/self_healing_coding_module.py            *)
(*     (AdvancedHealthMonitor + the recovery scheduler of                  *)
(*     SelfHealingModule), a set of threads sharing the monitor's and the  *)
(*     scheduler's fields;                                                 *)
(*   - the Agent state machine of src/bot_management_system.py (SubBot),   *)
(*     asyncio tasks that interleave only at their await points;           *)
(*   - BotSwarm and DirectorBot of the same file: the registries of bots   *)
(*     and swarms, the routing of commands and the gathers of a swarm.     *)
(* self_healing_coding_module.py reads the clock through the name `time`   *)
(* (time.time(), time.sleep()) but its import list, lines 3-29, does not   *)
(* import it: evaluating the name raises NameError.  The model keeps the   *)
(* real time as the variable now, in whole seconds, and lets every         *)
(* statement that names `time` do what Python does with an unbound name.   *)
(***************************************************************************)
EXTENDS Integers, Sequences, FiniteSets, TLC

VARIABLES
    now,               \* the real time, in seconds
    health_history,    \* AdvancedHealthMonitor.health_history
    monitoring_active, \* AdvancedHealthMonitor.monitoring_active
    autonomy_enabled,  \* SelfHealingModule.autonomy_enabled
    recovery_actions,  \* SelfHealingModule.recovery_actions (queue.PriorityQueue)
    action_history,    \* SelfHealingModule.action_history
    thr,               \* the threads running a health check, and where each is
    log,               \* the calls made on the module and the attempts recorded, with their times
    bots,              \* the SubBot objects constructed so far
    bot_type,          \* SubBot.bot_type
    status,            \* SubBot.status
    is_running,        \* SubBot.is_running
    command_queue,     \* SubBot.command_queue (asyncio.Queue)
    metrics,           \* SubBot.metrics (BotMetrics)
    loops,             \* the _command_loop tasks of each SubBot, and where each is
    cpu,               \* the coroutine the event loop is running between two awaits
    next_id,           \* number of commands the callers have made so far
    began,             \* per SubBot, the command ids in the order execute_command was entered
    ended,             \* per SubBot, the command ids in the order execute_command returned
    sub_bots,          \* DirectorBot.sub_bots: the registered bot ids, in insertion order
    swarms,            \* DirectorBot.swarms: the registered swarm ids, in insertion order
    swarm_bots,        \* BotSwarm.bots of each swarm: the member ids, in insertion order
    swarm_status,      \* BotSwarm.status ("" for a swarm not constructed)
    command_history,   \* DirectorBot.command_history
    director_metrics,  \* DirectorBot.metrics
    call,              \* the call the caller is suspended in (a gather of member tasks)
    returned,          \* the calls of the caller that returned, with their outcomes
    websocket_clients, \* DirectorBot.websocket_clients
    closed,            \* the listeners whose connection is closed
    casts              \* the _broadcast_to_websockets calls, and where each is

healVars == <<now, health_history, monitoring_active, autonomy_enabled,
              recovery_actions, action_history, thr, log>>
botVars == <<bots, bot_type, status, is_running, command_queue, metrics, loops, cpu,
             next_id, began, ended>>
dirVars == <<sub_bots, swarms, swarm_bots, swarm_status, command_history,
             director_metrics, call, returned>>
wsVars == <<websocket_clients, closed, casts>>
vars == <<now, health_history, monitoring_active, autonomy_enabled,
          recovery_actions, action_history, thr, log,
          bots, bot_type, status, is_running, command_queue, metrics, loops, cpu,
          next_id, began, ended,
          sub_bots, swarms, swarm_bots, swarm_status, command_history,
          director_metrics, call, returned,
          websocket_clients, closed, casts>>

(***************************************************************************)
(* Bounds of the model.                                                    *)
(***************************************************************************)
MaxChecks == 3        \* health checks stored or in flight
MaxCalls == 2         \* direct calls of _schedule_recovery_action in one run
MaxQueue == 2         \* entries on the recovery queue handed to a drain
MaxCmds == 3          \* commands put on Agent queues in one run
MaxLoops == 2         \* _command_loop tasks alive at once per Agent
MaxOps == 3           \* calls a caller makes on a swarm in one run
MaxBroadcasts == 1    \* broadcast_command calls a caller makes on a swarm in one run
MaxCasts == 2         \* _broadcast_to_websockets calls made in one run
MaxFeeds == 11        \* snapshots a caller feeds the monitor in one run


(***************************************************************************)
(* The module's namespace                                                  *)
(***************************************************************************)
\* The modules bound by the import statements at the top of the file.
Imports ==
    {"logging", "os", "sys", "ast", "json", "traceback", "importlib", "inspect", "re",
     "keyword", "builtins", "difflib", "textwrap", "threading", "queue", "gc",
     "resource", "signal", "psutil", "subprocess", "datetime", "pickle", "hashlib"}

\* Evaluating a module-level name: it is bound or the statement raises NameError.
Bound(name) == name \in Imports

(***************************************************************************)
(* AdvancedHealthMonitor                                                   *)
(***************************************************************************)
max_history == 100
cpu_critical == 90
memory_critical == 85
disk_critical == 95
response_time_critical == 5
interval == 30
default_cooldown == 300

\* HealthMetrics as the sampler can return them (error_rate is computed from
\* the history, timestamp is the clock).
Quiet == [cpu_usage |-> 50, memory_usage |-> 50, disk_usage |-> 50, response_time |-> 0]
HotCPU == [cpu_usage |-> 95, memory_usage |-> 50, disk_usage |-> 50, response_time |-> 0]
HotMem == [cpu_usage |-> 50, memory_usage |-> 90, disk_usage |-> 50, response_time |-> 0]
FullDisk == [cpu_usage |-> 50, memory_usage |-> 50, disk_usage |-> 97, response_time |-> 0]
Slow == [cpu_usage |-> 50, memory_usage |-> 50, disk_usage |-> 50, response_time |-> 6]

SchedSamples == {Quiet, HotCPU, HotMem, FullDisk, Slow}

\* The last n elements of s: the slice s[-n:].
LastN(s, n) == IF Len(s) <= n THEN s ELSE SubSeq(s, Len(s) - n + 1, Len(s))

RECURSIVE Gcd(_, _)
Gcd(a, b) == IF b = 0 THEN a ELSE Gcd(b, a % b)

\* The value of the division n / d, as the fraction <<numerator, denominator>>
\* in lowest terms.
Ratio(n, d) == <<n \div Gcd(n, d), d \div Gcd(n, d)>>

\* _calculate_error_rate
CalculateErrorRate(hist) ==
    IF Len(hist) < 5 THEN Ratio(0, 1)
    ELSE LET recent == LastN(hist, 10)
             high == Cardinality({i \in 1..Len(recent) : recent[i].cpu_usage > 80})
         IN Ratio(high, Len(recent))

\* _collect_metrics: the sample s completed with the computed error rate.
CollectMetrics(s, hist) ==
    [cpu_usage |-> s.cpu_usage, memory_usage |-> s.memory_usage,
     disk_usage |-> s.disk_usage, response_time |-> s.response_time,
     error_rate |-> CalculateErrorRate(hist)]

\* Alert messages, as their words (the numbers formatted into them left out).
AlertCPU == <<"Critical", "CPU", "usage">>
AlertMemory == <<"Critical", "memory", "usage">>
AlertDisk == <<"Critical", "disk", "usage">>
AlertResponse == <<"Slow", "response", "time">>
AlertErrorRate == <<"High", "error", "rate">>
AlertCPUTrend == <<"CPU", "usage", "trend:", "steadily", "increasing">>
AlertMemoryLeak == <<"Potential", "memory", "leak", "detected">>

\* _analyze_trends over the history.
AnalyzeTrends(hist) ==
    LET recent == LastN(hist, 10)
        n == Len(recent)
        rising == n >= 5 /\ \A i \in 1..(n - 1) : recent[i].cpu_usage < recent[i + 1].cpu_usage
        leak == n >= 5 /\ recent[n].memory_usage - recent[1].memory_usage > 10
    IN (IF rising THEN <<AlertCPUTrend>> ELSE <<>>) \o
       (IF leak THEN <<AlertMemoryLeak>> ELSE <<>>)

\* _analyze_metrics: the alerts raised for m, in the order they are triggered.
AnalyzeMetrics(m, hist) ==
    (IF m.cpu_usage > cpu_critical THEN <<AlertCPU>> ELSE <<>>) \o
    (IF m.memory_usage > memory_critical THEN <<AlertMemory>> ELSE <<>>) \o
    (IF m.disk_usage > disk_critical THEN <<AlertDisk>> ELSE <<>>) \o
    (IF m.response_time > response_time_critical THEN <<AlertResponse>> ELSE <<>>) \o
    (IF m.error_rate[1] * 10 > m.error_rate[2] THEN <<AlertErrorRate>> ELSE <<>>) \o
    (IF Len(hist) >= 10 THEN AnalyzeTrends(hist) ELSE <<>>)

(***************************************************************************)
(* SelfHealingModule: the recovery scheduler                               *)
(***************************************************************************)
\* `needle in alert` on the words of a message.
Contains(alert, needle) ==
    \E i \in 1..Len(alert) :
        /\ i + Len(needle) - 1 <= Len(alert)
        /\ SubSeq(alert, i, i + Len(needle) - 1) = needle

\* _handle_health_alert: the action type scheduled for an alert ("" for none).
AlertAction(alert) ==
    IF Contains(alert, <<"CPU", "usage">>) THEN "HighCPUUsage"
    ELSE IF Contains(alert, <<"memory", "usage">>) THEN "HighMemoryUsage"
    ELSE IF Contains(alert, <<"disk", "usage">>) THEN "DiskSpaceLow"
    ELSE IF Contains(alert, <<"response", "time">>) THEN "optimize_performance"
    ELSE ""

ActionTypes == {"HighCPUUsage", "HighMemoryUsage", "DiskSpaceLow", "optimize_performance"}

\* _register_recovery_actions: the RecoveryAction entries of recovery_strategies,
\* name -> <<priority, max_attempts, cooldown>>.
RegisteredActions ==
    [restart_service |-> <<1, 2, 300>>,
     clear_memory |-> <<2, 5, 60>>,
     restart_process |-> <<3, 3, 180>>,
     cleanup_temp |-> <<4, 10, 30>>,
     optimize_performance |-> <<5, 3, 600>>,
     rollback_changes |-> <<6, 1, 1800>>]

\* _initialize_recovery_strategies: the legacy entries an alert can name, with
\* the number of parameters (after self) the handler method declares.
LegacyParams ==
    [HighCPUUsage |-> 1, HighMemoryUsage |-> 1, DiskSpaceLow |-> 1,
     ProcessDead |-> 1, ServiceDown |-> 1]

\* The outcome's "success" when the executor of a strategy runs to its return.
\* _restart_critical_service simulates the restart and reports it done;
\* _restart_process and _rollback_recent_changes decline; _handle_service_down
\* and _handle_dead_process pass on what the restart they call reports.
ExecutorSuccess ==
    [HighCPUUsage |-> TRUE, HighMemoryUsage |-> TRUE, DiskSpaceLow |-> TRUE,
     optimize_performance |-> TRUE,
     restart_service |-> TRUE, restart_process |-> FALSE, rollback_changes |-> FALSE,
     ServiceDown |-> TRUE, ProcessDead |-> FALSE]

\* _execute_recovery_action: a RecoveryAction is called with the context; a
\* legacy strategy is called with (None, context), which a handler declaring
\* one parameter rejects with a TypeError, caught here and turned into False.
ExecuteRecoveryAction(action_type) ==
    IF action_type \in DOMAIN RegisteredActions THEN ExecutorSuccess[action_type]
    ELSE IF action_type \in DOMAIN LegacyParams
         THEN IF LegacyParams[action_type] = 2 THEN ExecutorSuccess[action_type] ELSE FALSE
         ELSE FALSE

\* _get_action_priority
priorities ==
    [HighCPUUsage |-> 2, HighMemoryUsage |-> 1, DiskSpaceLow |-> 3, ProcessDead |-> 1,
     ServiceDown |-> 1, optimize_performance |-> 4, cleanup_temp |-> 5]

GetActionPriority(action_type) ==
    IF action_type \in DOMAIN priorities THEN priorities[action_type] ELSE 10

\* _was_recently_attempted(action_type), with its default cooldown.
WasRecentlyAttempted(action_type, hist, t) ==
    IF action_type \notin DOMAIN hist THEN FALSE
    ELSE t - hist[action_type].last_attempt < default_cooldown

\* The order of the action_key strings "<action_type>_<time>" by their type part.
TypeRank ==
    [DiskSpaceLow |-> 1, HighCPUUsage |-> 2, HighMemoryUsage |-> 3, ProcessDead |-> 4,
     ServiceDown |-> 5, optimize_performance |-> 6, restart_process |-> 7,
     restart_service |-> 8, rollback_changes |-> 9]

\* Tuple order of two queue entries (priority, action_key, ...); entries queued
\* at the same model second read the clock in the order they were put.
EntryBefore(q, i, j) ==
    \/ q[i].priority < q[j].priority
    \/ /\ q[i].priority = q[j].priority
       /\ \/ TypeRank[q[i].action_type] < TypeRank[q[j].action_type]
          \/ /\ q[i].action_type = q[j].action_type
             /\ \/ q[i].time < q[j].time
                \/ q[i].time = q[j].time /\ i < j

\* PriorityQueue.get_nowait: the index of the entry it returns.
PopIndex(q) == CHOOSE i \in 1..Len(q) : \A j \in (1..Len(q)) \ {i} : EntryBefore(q, i, j)

RemoveAt(q, i) == SubSeq(q, 1, i - 1) \o SubSeq(q, i + 1, Len(q))

\* A variant of the bookkeeping that keeps only the record of the action it
\* has just counted.
RecordAttemptAlone(hist, action_type, success, t) ==
    LET old == IF action_type \in DOMAIN hist THEN hist[action_type]
               ELSE [attempts |-> 0, successes |-> 0, last_attempt |-> 0]
    IN [a \in {action_type} |-> [old EXCEPT !.attempts = @ + 1]]

\* The bookkeeping of _process_recovery_queue for one executed action: the
\* entry is created, attempts is incremented, then last_attempt = time.time()
\* and, on success, successes is incremented.  With `time` unbound the
\* assignment raises NameError after the increment of attempts; the entry
\* keeps no last_attempt (read back as 0 by .get('last_attempt', 0)) and
\* successes is not touched.
RecordAttempt(hist, action_type, success, t) ==
    LET old == IF action_type \in DOMAIN hist THEN hist[action_type]
               ELSE [attempts |-> 0, successes |-> 0, last_attempt |-> 0]
        new == IF Bound("time")
               THEN [attempts |-> old.attempts + 1,
                     successes |-> IF success THEN old.successes + 1 ELSE old.successes,
                     last_attempt |-> t]
               ELSE [old EXCEPT !.attempts = @ + 1]
    IN [a \in (DOMAIN hist) \cup {action_type} |->
            IF a = action_type THEN new ELSE hist[a]]

(***************************************************************************)
(* Threads. "api" is a caller of force_health_check(); "api2" is a second   *)
(* calling thread; the others are the monitor threads start_monitoring()   *)
(* creates.                                                                *)
(***************************************************************************)
MonThreads == {"m1", "m2"}
Callers == {"api", "api2"}
Threads == MonThreads \cup Callers

NoMetrics == [cpu_usage |-> 0, memory_usage |-> 0, disk_usage |-> 0, response_time |-> 0,
              error_rate |-> <<0, 1>>]
NoEntry == [priority |-> 0, action_type |-> "", time |-> 0]
\* A summary dict: its "status" and its keys.
NoResult == [status |-> "", keys |-> {}]

\* A thread: where it is (pc), the metrics and alerts of its health check, the
\* queue entry it popped and its result, the end of its sleep, the actions its
\* current _process_recovery_queue call popped (batch), where that call
\* returns to (ret), the exception that left its entry point (exc), and the
\* dict its last get_health_summary() returned (result), and the attempts it
\* read for the increment it has not yet written back (seen).
Parked(p) == [pc |-> p, m |-> NoMetrics, alerts |-> <<>>, cur |-> NoEntry,
              success |-> FALSE, wake |-> 0, batch |-> <<>>, ret |-> "alerts",
              exc |-> "", result |-> NoResult, seen |-> 0]

\* Health checks stored or in flight.
Checks == Len(health_history) +
          Cardinality({t \in Threads : thr[t].pc \in {"analyze", "alerts", "drain", "record"}})

\* A thread's entry point was left by a NameError.
Faulted(p) == [Parked(p) EXCEPT !.exc = "NameError"]

\* What the log holds: calls of _schedule_recovery_action and recorded attempts.
Event(op, action_type, t) == [op |-> op, action_type |-> action_type, time |-> t]

Events(op) == {i \in 1..Len(log) : log[i].op = op}

\* _monitor_loop: the loop test, then _collect_metrics.  Its first statement
\* names `time`: unbound, it raises NameError, the handler of the loop logs it
\* and its own time.sleep(interval) raises NameError out of the thread.
MonitorCollect(t, samples, maxChecks) ==
    /\ t \in MonThreads
    /\ thr[t].pc = "loop"
    /\ monitoring_active
    /\ IF Bound("time")
       THEN /\ Checks < maxChecks
            /\ \E s \in samples :
                 thr' = [thr EXCEPT ![t].pc = "analyze",
                                    ![t].m = CollectMetrics(s, health_history)]
       ELSE thr' = [thr EXCEPT ![t] = Faulted("none")]
    /\ UNCHANGED <<now, health_history, monitoring_active, autonomy_enabled,
                   recovery_actions, action_history, log>>
    /\ UNCHANGED <<botVars, dirVars, wsVars>>

\* _monitor_loop: the loop test fails and the thread ends.
MonitorExit(t) ==
    /\ t \in MonThreads
    /\ thr[t].pc = "loop"
    /\ ~monitoring_active
    /\ thr' = [thr EXCEPT ![t] = Parked("none")]
    /\ UNCHANGED <<now, health_history, monitoring_active, autonomy_enabled,
                   recovery_actions, action_history, log>>
    /\ UNCHANGED <<botVars, dirVars, wsVars>>

\* force_health_check: _collect_metrics; its NameError goes to the caller.
ForceCollect(samples, maxChecks) ==
    /\ thr["api"].pc = "idle"
    /\ IF Bound("time")
       THEN /\ Checks < maxChecks
            /\ \E s \in samples :
                 thr' = [thr EXCEPT !["api"] = [Parked("analyze") EXCEPT
                                                  !.m = CollectMetrics(s, health_history)]]
       ELSE thr' = [thr EXCEPT !["api"] = Faulted("idle")]
    /\ UNCHANGED <<now, health_history, monitoring_active, autonomy_enabled,
                   recovery_actions, action_history, log>>
    /\ UNCHANGED <<botVars, dirVars, wsVars>>

\* The snapshots a caller feeds that go on from the last one stored: the same
\* CPU value again, or the next higher one.
TrendSamples ==
    LET last == IF health_history = <<>> THEN 50
                ELSE health_history[Len(health_history)].cpu_usage
    IN {[Quiet EXCEPT !.cpu_usage = c] : c \in {last, last + 1}}

\* A caller feeds the monitor a snapshot of its own: what a tick does with a
\* sample, _analyze_metrics(metrics) and then _store_metrics(metrics).
FeedMetrics(samples, maxChecks) ==
    /\ thr["api"].pc = "idle"
    /\ Checks < maxChecks
    /\ \E s \in samples :
         thr' = [thr EXCEPT !["api"] = [Parked("analyze") EXCEPT
                                          !.m = CollectMetrics(s, health_history)]]
    /\ UNCHANGED <<now, health_history, monitoring_active, autonomy_enabled,
                   recovery_actions, action_history, log>>
    /\ UNCHANGED <<botVars, dirVars, wsVars>>

\* _analyze_metrics up to its alert loop.
Analyze(t) ==
    /\ thr[t].pc = "analyze"
    /\ thr' = [thr EXCEPT ![t].pc = "alerts",
                          ![t].alerts = AnalyzeMetrics(thr[t].m, health_history)]
    /\ UNCHANGED <<now, health_history, monitoring_active, autonomy_enabled,
                   recovery_actions, action_history, log>>
    /\ UNCHANGED <<botVars, dirVars, wsVars>>

\* The entry _schedule_recovery_action puts on the queue.
Entry(action_type, t) ==
    [priority |-> GetActionPriority(action_type), action_type |-> action_type, time |-> t]

\* _schedule_recovery_action up to its call of _process_recovery_queue:
\* "raise" (the action_key names `time`), "skip" (recently attempted) or "put".
ScheduleStep(action_type) ==
    IF ~Bound("time") THEN "raise"
    ELSE IF WasRecentlyAttempted(action_type, action_history, now) THEN "skip"
    ELSE "put"

\* A variant of _handle_health_alert without the test of autonomy_enabled.
ScheduledUngated(alert) == AlertAction(alert)

\* _handle_health_alert: the action type it hands to _schedule_recovery_action,
\* "" when autonomy is disabled or the alert names no action.
Scheduled(alert) == IF ~autonomy_enabled THEN "" ELSE AlertAction(alert)

\* _trigger_alert -> _handle_health_alert -> _schedule_recovery_action, up to
\* the put on the queue; _trigger_alert catches what the callback raises.
HandleAlert(t) ==
    /\ thr[t].pc = "alerts"
    /\ thr[t].alerts # <<>>
    /\ LET alert == Head(thr[t].alerts)
           action_type == Scheduled(alert)
           rest == Tail(thr[t].alerts)
       IN IF action_type = ""
          THEN /\ thr' = [thr EXCEPT ![t].alerts = rest]
               /\ UNCHANGED <<recovery_actions, log>>
          ELSE /\ log' = Append(log, Event("schedule", action_type, now))
               /\ IF ScheduleStep(action_type) = "put"
                  THEN /\ recovery_actions' = Append(recovery_actions, Entry(action_type, now))
                       /\ thr' = [thr EXCEPT ![t].alerts = rest, ![t].pc = "drain",
                                             ![t].batch = <<>>, ![t].ret = "alerts"]
                  ELSE /\ thr' = [thr EXCEPT ![t].alerts = rest]
                       /\ UNCHANGED recovery_actions
    /\ UNCHANGED <<now, health_history, monitoring_active, autonomy_enabled, action_history>>
    /\ UNCHANGED <<botVars, dirVars, wsVars>>

\* _schedule_recovery_action(action_type, context) called on its own, up to
\* the put on the queue; its NameError goes to the caller.
ScheduleCall(action_type) ==
    /\ thr["api"].pc = "idle"
    /\ Cardinality(Events("schedule")) < MaxCalls
    /\ log' = Append(log, Event("schedule", action_type, now))
    /\ CASE ScheduleStep(action_type) = "raise" ->
              /\ thr' = [thr EXCEPT !["api"] = Faulted("idle")]
              /\ UNCHANGED recovery_actions
         [] ScheduleStep(action_type) = "skip" ->
              /\ thr' = [thr EXCEPT !["api"] = Parked("idle")]
              /\ UNCHANGED recovery_actions
         [] ScheduleStep(action_type) = "put" ->
              /\ recovery_actions' = Append(recovery_actions, Entry(action_type, now))
              /\ thr' = [thr EXCEPT !["api"] = [Parked("drain") EXCEPT !.ret = "idle"]]
    /\ UNCHANGED <<now, health_history, monitoring_active, autonomy_enabled, action_history>>
    /\ UNCHANGED <<botVars, dirVars, wsVars>>

\* _process_recovery_queue() called on its own.
DrainCall ==
    /\ thr["api"].pc = "idle"
    /\ thr' = [thr EXCEPT !["api"] = [Parked("drain") EXCEPT !.ret = "idle"]]
    /\ UNCHANGED <<now, health_history, monitoring_active, autonomy_enabled,
                   recovery_actions, action_history, log>>
    /\ UNCHANGED <<botVars, dirVars, wsVars>>

\* _process_recovery_queue: get_nowait and _execute_recovery_action.
DrainPop(t) ==
    /\ thr[t].pc = "drain"
    /\ recovery_actions # <<>>
    /\ LET i == PopIndex(recovery_actions)
           e == recovery_actions[i]
       IN /\ recovery_actions' = RemoveAt(recovery_actions, i)
          /\ thr' = [thr EXCEPT ![t].pc = "record", ![t].cur = e,
                                ![t].success = ExecuteRecoveryAction(e.action_type),
                                ![t].batch = Append(thr[t].batch, e.action_type)]
    /\ UNCHANGED <<now, health_history, monitoring_active, autonomy_enabled,
                   action_history, log>>
    /\ UNCHANGED <<botVars, dirVars, wsVars>>

\* _process_recovery_queue: the bookkeeping of the popped action; a failed
\* action is logged, an exception in the bookkeeping is caught inside the
\* loop, and the loop goes on either way.
DrainRecord(t) ==
    /\ thr[t].pc = "record"
    /\ action_history' = RecordAttempt(action_history, thr[t].cur.action_type,
                                       thr[t].success, now)
    /\ log' = Append(log, Event("attempt", thr[t].cur.action_type, now))
    /\ thr' = [thr EXCEPT ![t].pc = "drain", ![t].cur = NoEntry, ![t].success = FALSE]
    /\ UNCHANGED <<now, health_history, monitoring_active, autonomy_enabled, recovery_actions>>
    /\ UNCHANGED <<botVars, dirVars, wsVars>>

\* A second thread calls _process_recovery_queue(); nothing in the module
\* makes it wait for a call in progress.
DrainCallOther ==
    /\ thr["api2"].pc = "idle"
    /\ thr' = [thr EXCEPT !["api2"] = [Parked("drain") EXCEPT !.ret = "idle"]]
    /\ UNCHANGED <<now, health_history, monitoring_active, autonomy_enabled,
                   recovery_actions, action_history, log>>
    /\ UNCHANGED <<botVars, dirVars, wsVars>>

\* The attempts `attempts += 1` reads: those of the record, 0 for the record
\* line 377 is about to create.
Seen(hist, action_type) ==
    IF action_type \in DOMAIN hist THEN hist[action_type].attempts ELSE 0

\* The history with the attempts of the action put back to what a thread read.
Stale(hist, action_type, seen) ==
    IF action_type \in DOMAIN hist
    THEN [hist EXCEPT ![action_type].attempts = seen]
    ELSE hist

\* _process_recovery_queue, the bookkeeping taken in two steps: the test of
\* line 376 and the read of `attempts += 1` ...
RecordRead(t) ==
    /\ thr[t].pc = "record"
    /\ thr' = [thr EXCEPT ![t].pc = "write",
                          ![t].seen = Seen(action_history, thr[t].cur.action_type)]
    /\ UNCHANGED <<now, health_history, monitoring_active, autonomy_enabled,
                   recovery_actions, action_history, log>>
    /\ UNCHANGED <<botVars, dirVars, wsVars>>

\* ... and the write of the value read plus one, with the rest of the
\* bookkeeping; another thread may have run in between.
RecordWrite(t) ==
    /\ thr[t].pc = "write"
    /\ action_history' = RecordAttempt(Stale(action_history, thr[t].cur.action_type,
                                             thr[t].seen),
                                       thr[t].cur.action_type, thr[t].success, now)
    /\ log' = Append(log, Event("attempt", thr[t].cur.action_type, now))
    /\ thr' = [thr EXCEPT ![t].pc = "drain", ![t].cur = NoEntry, ![t].success = FALSE,
                          ![t].seen = 0]
    /\ UNCHANGED <<now, health_history, monitoring_active, autonomy_enabled, recovery_actions>>
    /\ UNCHANGED <<botVars, dirVars, wsVars>>

\* _process_recovery_queue: the queue is empty and the call returns.
DrainEnd(t) ==
    /\ thr[t].pc = "drain"
    /\ recovery_actions = <<>>
    /\ thr' = [thr EXCEPT ![t].pc = thr[t].ret]
    /\ UNCHANGED <<now, health_history, monitoring_active, autonomy_enabled,
                   recovery_actions, action_history, log>>
    /\ UNCHANGED <<botVars, dirVars, wsVars>>

\* _store_metrics, which ends force_health_check.
Store(t) ==
    /\ thr[t].pc = "alerts"
    /\ thr[t].alerts = <<>>
    /\ health_history' = Append(health_history, thr[t].m)
    /\ thr' = [thr EXCEPT ![t] = IF t = "api" THEN Parked("idle")
                                  ELSE [Parked("trim") EXCEPT !.m = thr[t].m]]
    /\ UNCHANGED <<now, monitoring_active, autonomy_enabled, recovery_actions,
                   action_history, log>>
    /\ UNCHANGED <<botVars, dirVars, wsVars>>

\* _monitor_loop: the cleanup of old metrics, then time.sleep(interval), which
\* with `time` unbound raises NameError into the handler of the loop, whose
\* own time.sleep(interval) raises it out of the thread.
Trim(t) ==
    /\ thr[t].pc = "trim"
    /\ health_history' = IF Len(health_history) > max_history
                         THEN LastN(health_history, max_history)
                         ELSE health_history
    /\ thr' = [thr EXCEPT ![t] = IF Bound("time")
                                  THEN [Parked("sleep") EXCEPT !.wake = now + interval]
                                  ELSE Faulted("none")]
    /\ UNCHANGED <<now, monitoring_active, autonomy_enabled, recovery_actions,
                   action_history, log>>
    /\ UNCHANGED <<botVars, dirVars, wsVars>>

\* time.sleep(interval) returns.
Wake(t) ==
    /\ thr[t].pc = "sleep"
    /\ now >= thr[t].wake
    /\ thr' = [thr EXCEPT ![t] = Parked("loop")]
    /\ UNCHANGED <<now, health_history, monitoring_active, autonomy_enabled,
                   recovery_actions, action_history, log>>
    /\ UNCHANGED <<botVars, dirVars, wsVars>>

\* The real time advances to one of the given later times.
AdvanceClock(times) ==
    /\ \E p \in times : p > now /\ now' = p
    /\ UNCHANGED <<health_history, monitoring_active, autonomy_enabled,
                   recovery_actions, action_history, thr, log>>
    /\ UNCHANGED <<botVars, dirVars, wsVars>>

\* The queues a caller can have filled before it calls the drain: up to
\* MaxQueue entries of the alert-derived action types.
Queues == UNION {[1..n -> {Entry(a, 0) : a \in ActionTypes}] : n \in 0..MaxQueue}

\* The action types of the restarts and of the rollback, and the queues a
\* caller can have filled with them.
DeclinedTypes == {"restart_service", "ServiceDown", "restart_process", "ProcessDead",
                  "rollback_changes"}
DeclinedQueues == UNION {[1..n -> {Entry(a, 0) : a \in DeclinedTypes}] : n \in 0..MaxQueue}

\* SelfHealingModule.__init__: empty queue and history, autonomy on, and
\* start_monitoring() has created the monitor thread; `queues` are the
\* contents of recovery_actions to start from.
HealInit(queues) ==
    /\ now = 0
    /\ health_history = <<>>
    /\ monitoring_active = TRUE
    /\ autonomy_enabled = TRUE
    /\ recovery_actions \in queues
    /\ action_history = [a \in {} |-> 0]
    /\ thr = [t \in Threads |-> IF t = "m1" THEN Parked("loop")
                                ELSE IF t \in Callers THEN Parked("idle") ELSE Parked("none")]
    /\ log = <<>>

\* The thread id start_monitoring gives its new thread.
FreeThread == CHOOSE t \in MonThreads : thr[t].pc = "none"

\* A variant of start_monitoring without the test of monitoring_active.
StartMonitoringAlways ==
    /\ monitoring_active' = TRUE
    /\ thr' = [thr EXCEPT ![FreeThread] = Parked("loop")]

\* start_monitoring: nothing when already active, else a new _monitor_loop thread.
StartMonitoring ==
    IF monitoring_active
    THEN UNCHANGED <<monitoring_active, thr>>
    ELSE /\ monitoring_active' = TRUE
         /\ thr' = [thr EXCEPT ![FreeThread] = Parked("loop")]

\* stop_monitoring: the flag is cleared; join(timeout=5) returns whether or not
\* the thread has ended.
StopMonitoring ==
    /\ monitoring_active' = FALSE
    /\ UNCHANGED thr

\* The calls a caller has made on the monitor.
Calls == {i \in 1..Len(log) : log[i].op \in {"start_monitoring", "stop_monitoring",
                                               "get_health_summary"}}

\* What the log keeps of a call on the monitor: the flag the call found.
Flag == IF monitoring_active THEN "active" ELSE "inactive"

\* start_monitoring() called on its own.
StartMonitoringCall ==
    /\ Cardinality(Calls) < MaxCalls
    /\ monitoring_active \/ \E t \in MonThreads : thr[t].pc = "none"
    /\ StartMonitoring
    /\ log' = Append(log, Event("start_monitoring", Flag, now))
    /\ UNCHANGED <<now, health_history, autonomy_enabled, recovery_actions, action_history>>
    /\ UNCHANGED <<botVars, dirVars, wsVars>>

\* stop_monitoring() called on its own.
StopMonitoringCall ==
    /\ Cardinality(Calls) < MaxCalls
    /\ StopMonitoring
    /\ log' = Append(log, Event("stop_monitoring", Flag, now))
    /\ UNCHANGED <<now, health_history, autonomy_enabled, recovery_actions, action_history>>
    /\ UNCHANGED <<botVars, dirVars, wsVars>>

\* A variant of the summary that answers an empty history with a snapshot of zeros.
GetHealthSummaryDefault(hist) ==
    [status |-> IF hist = <<>> \/ (hist[Len(hist)].cpu_usage < 80
                                    /\ hist[Len(hist)].memory_usage < 80)
                THEN "healthy" ELSE "warning",
     keys |-> {"status", "current", "averages", "trends", "monitoring_active"}]

\* get_health_summary: the dict it returns.
GetHealthSummary(hist) ==
    IF hist = <<>> THEN [status |-> "no_data", keys |-> {"status"}]
    ELSE [status |-> IF hist[Len(hist)].cpu_usage < 80 /\ hist[Len(hist)].memory_usage < 80
                     THEN "healthy" ELSE "warning",
          keys |-> {"status", "current", "averages", "trends", "monitoring_active"}]

\* get_health_summary() called by a caller.
SummaryCall ==
    /\ thr["api"].pc = "idle"
    /\ Cardinality(Calls) < MaxCalls
    /\ thr' = [thr EXCEPT !["api"] = [Parked("idle") EXCEPT
                                        !.result = GetHealthSummary(health_history)]]
    /\ log' = Append(log, Event("get_health_summary", "", now))
    /\ UNCHANGED <<now, health_history, monitoring_active, autonomy_enabled,
                   recovery_actions, action_history>>
    /\ UNCHANGED <<botVars, dirVars, wsVars>>

\* enable_autonomy
EnableAutonomy ==
    /\ monitoring_active \/ \E t \in MonThreads : thr[t].pc = "none"
    /\ autonomy_enabled' = TRUE
    /\ StartMonitoring
    /\ UNCHANGED <<now, health_history, recovery_actions, action_history, log>>
    /\ UNCHANGED <<botVars, dirVars, wsVars>>

\* disable_autonomy
DisableAutonomy ==
    /\ autonomy_enabled' = FALSE
    /\ StopMonitoring
    /\ UNCHANGED <<now, health_history, recovery_actions, action_history, log>>
    /\ UNCHANGED <<botVars, dirVars, wsVars>>

(***************************************************************************)
(* SubBot                                                                  *)
(***************************************************************************)
\* The ids uuid4 gives to the bots, in the order they are constructed.
BotOrder == <<"b1", "b2", "b3", "b4">>
BotIds == {BotOrder[i] : i \in DOMAIN BotOrder}
LoopIds == 1..MaxLoops

\* _register_default_handlers and the handlers the specializations add.
TaskHandlers(btype) ==
    {"ping", "status", "shutdown", "configure"} \cup
    (CASE btype = "analyzer" -> {"analyze_code", "quality_check"}
       [] btype = "generator" -> {"generate_code", "create_tests"}
       [] btype = "monitor" -> {"health_check", "monitor_system"}
       [] OTHER -> {})

\* What the handler of a command does: "return" without suspending, "await"
\* (asyncio.sleep) and then return, "raise", or "shutdown" (await self.stop());
\* "unknown" when the handler table has no entry for the command type.
HandlerKind(btype, command) ==
    IF command.command_type \notin TaskHandlers(btype) THEN "unknown"
    ELSE CASE command.command_type = "shutdown" -> "shutdown"
           [] command.command_type = "analyze_code" ->
                  IF command.filepath THEN "await" ELSE "raise"
           [] command.command_type \in {"quality_check", "generate_code",
                                       "create_tests", "health_check"} -> "await"
           [] OTHER -> "return"

\* A variant of the dispatch that treats a missing handler as a success.
OutcomeNoLookupCheck(kind) == IF kind = "raise" THEN "error" ELSE "success"

\* execute_command: the status of the outcome it returns.
Outcome(kind) == IF kind \in {"unknown", "raise"} THEN "error" ELSE "success"

\* An empty parameters dict, and dict.get.
NoParams == [k \in {} |-> ""]
Get(p, key, default) == IF key \in DOMAIN p THEN p[key] ELSE default

\* BotCommand: filepath is the truth value of parameters.get('filepath'),
\* parameters holds the other keys; "" stands for None in the two targets.
BotCommand(id, ctype, fp, tbot, tswarm, params) ==
    [command_id |-> id, command_type |-> ctype, filepath |-> fp,
     target_bot |-> tbot, target_swarm |-> tswarm, parameters |-> params]

NoCmd == BotCommand(0, "", FALSE, "", "", NoParams)
NoLoop == [pc |-> "none", cmd |-> NoCmd, result |-> ""]
NoCpu == [k |-> "none", bot |-> "", id |-> 0]

\* The commands a caller can put on a queue.
Commands(id) ==
    {BotCommand(id, c, FALSE, "", "", NoParams) :
        c \in {"ping", "shutdown", "analyze_code", "bogus"}}
    \cup {BotCommand(id, "analyze_code", TRUE, "", "", NoParams)}

\* The entry logged in `ended` when execute_command returns an outcome.
Returned(c, outcome) ==
    [command_id |-> c.command_id, command_type |-> c.command_type, status |-> outcome]

\* BotMetrics after the success-rate update of execute_command.
UpdateSuccessRate(m) ==
    [m EXCEPT !.success_rate = Ratio(m.commands_executed - m.error_count, m.commands_executed)]

\* start(): status STARTING, is_running set, the processing loop is created.
StartBegin(b) ==
    /\ cpu = NoCpu
    /\ b \in bots
    /\ \E l \in LoopIds :
         /\ loops[b][l].pc = "none"
         /\ \A k \in LoopIds : k < l => loops[b][k].pc # "none"
         /\ loops' = [loops EXCEPT ![b][l] = [NoLoop EXCEPT !.pc = "new"]]
    /\ status' = [status EXCEPT ![b] = "starting"]
    /\ is_running' = [is_running EXCEPT ![b] = TRUE]
    /\ cpu' = [k |-> "start", bot |-> b, id |-> 0]
    /\ UNCHANGED <<bots, bot_type, command_queue, metrics, next_id, began, ended>>
    /\ UNCHANGED <<healVars, dirVars, wsVars>>

\* start(): status IDLE, listeners notified.
StartEnd(b) ==
    /\ cpu = [k |-> "start", bot |-> b, id |-> 0]
    /\ status' = [status EXCEPT ![b] = "idle"]
    /\ cpu' = NoCpu
    /\ UNCHANGED <<bots, bot_type, is_running, command_queue, metrics, loops, next_id, began, ended>>
    /\ UNCHANGED <<healVars, dirVars, wsVars>>

\* stop(): status STOPPING, is_running cleared.
StopBegin(b) ==
    /\ cpu = NoCpu
    /\ b \in bots
    /\ status' = [status EXCEPT ![b] = "stopping"]
    /\ is_running' = [is_running EXCEPT ![b] = FALSE]
    /\ cpu' = [k |-> "stop", bot |-> b, id |-> 0]
    /\ UNCHANGED <<bots, bot_type, command_queue, metrics, loops, next_id, began, ended>>
    /\ UNCHANGED <<healVars, dirVars, wsVars>>

\* stop(): status STOPPED, listeners notified.
StopEnd(b) ==
    /\ cpu = [k |-> "stop", bot |-> b, id |-> 0]
    /\ status' = [status EXCEPT ![b] = "stopped"]
    /\ cpu' = NoCpu
    /\ UNCHANGED <<bots, bot_type, is_running, command_queue, metrics, loops, next_id, began, ended>>
    /\ UNCHANGED <<healVars, dirVars, wsVars>>

\* command_queue.put(command) by a caller (delegation or a swarm broadcast).
Enqueue(b, c) ==
    /\ cpu = NoCpu
    /\ b \in bots
    /\ next_id < MaxCmds
    /\ c \in Commands(next_id + 1)
    /\ command_queue' = [command_queue EXCEPT ![b] = Append(@, c)]
    /\ next_id' = next_id + 1
    /\ UNCHANGED <<bots, bot_type, status, is_running, metrics, loops, cpu, began, ended>>
    /\ UNCHANGED <<healVars, dirVars, wsVars>>

\* Where a loop task goes when it comes back to its `while self.is_running`.
LoopTest(b, running) == IF running[b] THEN "wait" ELSE "none"

\* _command_loop: the task runs for the first time.
LoopFirstRun(b, l) ==
    /\ cpu = NoCpu
    /\ loops[b][l].pc = "new"
    /\ loops' = [loops EXCEPT ![b][l].pc = LoopTest(b, is_running)]
    /\ UNCHANGED <<bots, bot_type, status, is_running, command_queue, metrics, cpu, next_id, began, ended>>
    /\ UNCHANGED <<healVars, dirVars, wsVars>>

\* _command_loop: wait_for(command_queue.get()) returns a command; status ACTIVE.
LoopGet(b, l) ==
    /\ cpu = NoCpu
    /\ loops[b][l].pc = "wait"
    /\ command_queue[b] # <<>>
    /\ loops' = [loops EXCEPT ![b][l].pc = "exec", ![b][l].cmd = Head(command_queue[b])]
    /\ command_queue' = [command_queue EXCEPT ![b] = Tail(@)]
    /\ status' = [status EXCEPT ![b] = "active"]
    /\ cpu' = [k |-> "loop", bot |-> b, id |-> l]
    /\ UNCHANGED <<bots, bot_type, is_running, metrics, next_id, began, ended>>
    /\ UNCHANGED <<healVars, dirVars, wsVars>>

\* _command_loop: wait_for times out on an empty queue, and the loop test ends the task.
LoopTimeout(b, l) ==
    /\ cpu = NoCpu
    /\ loops[b][l].pc = "wait"
    /\ command_queue[b] = <<>>
    /\ ~is_running[b]
    /\ loops' = [loops EXCEPT ![b][l] = NoLoop]
    /\ UNCHANGED <<bots, bot_type, status, is_running, command_queue, metrics, cpu, next_id, began, ended>>
    /\ UNCHANGED <<healVars, dirVars, wsVars>>

\* execute_command, from its entry to the handler's first suspension, to the
\* first status assignment of a shutdown, or to its return.
ExecStep(b, l) ==
    /\ cpu = [k |-> "loop", bot |-> b, id |-> l]
    /\ loops[b][l].pc = "exec"
    /\ LET c == loops[b][l].cmd
           kind == HandlerKind(bot_type[b], c)
           m1 == [metrics[b] EXCEPT !.commands_executed = @ + 1]
       IN /\ began' = [began EXCEPT ![b] = Append(@, c.command_id)]
          /\ IF kind = "await"
             THEN /\ metrics' = [metrics EXCEPT ![b] = m1]
                  /\ loops' = [loops EXCEPT ![b][l].pc = "sleeping"]
                  /\ cpu' = NoCpu
                  /\ UNCHANGED <<status, is_running, ended>>
             ELSE IF kind = "shutdown"
             THEN /\ metrics' = [metrics EXCEPT ![b] = m1]
                  /\ status' = [status EXCEPT ![b] = "stopping"]
                  /\ is_running' = [is_running EXCEPT ![b] = FALSE]
                  /\ loops' = [loops EXCEPT ![b][l].pc = "stopping"]
                  /\ UNCHANGED <<cpu, ended>>
             ELSE IF Outcome(kind) = "error"
             THEN /\ metrics' = [metrics EXCEPT ![b] = [m1 EXCEPT !.error_count = @ + 1]]
                  /\ loops' = [loops EXCEPT ![b][l].pc = "ret", ![b][l].result = "error"]
                  /\ ended' = [ended EXCEPT ![b] = Append(@, Returned(c, "error"))]
                  /\ UNCHANGED <<status, is_running, cpu>>
             ELSE /\ metrics' = [metrics EXCEPT ![b] = UpdateSuccessRate(m1)]
                  /\ loops' = [loops EXCEPT ![b][l].pc = "ret", ![b][l].result = "success"]
                  /\ ended' = [ended EXCEPT ![b] = Append(@, Returned(c, "success"))]
                  /\ UNCHANGED <<status, is_running, cpu>>
    /\ UNCHANGED <<bots, bot_type, command_queue, next_id>>
    /\ UNCHANGED <<healVars, dirVars, wsVars>>

\* _handle_shutdown: stop() sets status STOPPED and the handler returns;
\* execute_command updates the success rate and returns the outcome.
ShutdownFinish(b, l) ==
    /\ cpu = [k |-> "loop", bot |-> b, id |-> l]
    /\ loops[b][l].pc = "stopping"
    /\ status' = [status EXCEPT ![b] = "stopped"]
    /\ metrics' = [metrics EXCEPT ![b] = UpdateSuccessRate(@)]
    /\ loops' = [loops EXCEPT ![b][l].pc = "ret", ![b][l].result = "success"]
    /\ ended' = [ended EXCEPT ![b] = Append(@, Returned(loops[b][l].cmd, "success"))]
    /\ UNCHANGED <<bots, bot_type, is_running, command_queue, cpu, next_id, began>>
    /\ UNCHANGED <<healVars, dirVars, wsVars>>

\* The handler's asyncio.sleep ends; execute_command updates the success rate
\* and returns the outcome.
HandlerWake(b, l) ==
    /\ cpu = NoCpu
    /\ loops[b][l].pc = "sleeping"
    /\ metrics' = [metrics EXCEPT ![b] = UpdateSuccessRate(@)]
    /\ loops' = [loops EXCEPT ![b][l].pc = "ret", ![b][l].result = "success"]
    /\ ended' = [ended EXCEPT ![b] = Append(@, Returned(loops[b][l].cmd, "success"))]
    /\ cpu' = [k |-> "loop", bot |-> b, id |-> l]
    /\ UNCHANGED <<bots, bot_type, status, is_running, command_queue, next_id, began>>
    /\ UNCHANGED <<healVars, dirVars, wsVars>>

\* _command_loop after execute_command returned: status IDLE, then the loop test.
LoopAfter(b, l) ==
    /\ cpu = [k |-> "loop", bot |-> b, id |-> l]
    /\ loops[b][l].pc = "ret"
    /\ status' = [status EXCEPT ![b] = "idle"]
    /\ loops' = [loops EXCEPT ![b][l] = [NoLoop EXCEPT !.pc = LoopTest(b, is_running)]]
    /\ cpu' = NoCpu
    /\ UNCHANGED <<bots, bot_type, is_running, command_queue, metrics, next_id, began, ended>>
    /\ UNCHANGED <<healVars, dirVars, wsVars>>

\* BaseBotInterface.__init__ for the bots of a run; the others are not constructed.
BotsInit(types) ==
    /\ bots = {BotOrder[i] : i \in DOMAIN types}
    /\ bot_type = [b \in BotIds |->
                     IF \E i \in DOMAIN types : BotOrder[i] = b
                     THEN types[CHOOSE i \in DOMAIN types : BotOrder[i] = b] ELSE ""]
    /\ status = [b \in BotIds |-> "idle"]
    /\ is_running = [b \in BotIds |-> FALSE]
    /\ command_queue = [b \in BotIds |-> <<>>]
    /\ metrics = [b \in BotIds |->
                    [commands_executed |-> 0, error_count |-> 0, success_rate |-> Ratio(1, 1)]]
    /\ loops = [b \in BotIds |-> [l \in LoopIds |-> NoLoop]]
    /\ cpu = NoCpu
    /\ next_id = 0
    /\ began = [b \in BotIds |-> <<>>]
    /\ ended = [b \in BotIds |-> <<>>]

\* One AnalyzerBot constructed by the caller.
BotInit == BotsInit(<<"analyzer">>)

(***************************************************************************)
(* BotSwarm and DirectorBot                                                *)
(***************************************************************************)
\* The ids uuid4 gives to the swarms, in the order they are constructed.
SwarmOrder == <<"s1", "s2">>
SwarmIds == {SwarmOrder[i] : i \in DOMAIN SwarmOrder}

Range(seq) == {seq[i] : i \in DOMAIN seq}

RECURSIVE Unused(_, _)
\* The ids of a pool that no object has yet, in the pool's order.
Unused(order, used) ==
    IF order = <<>> THEN <<>>
    ELSE IF Head(order) \in used THEN Unused(Tail(order), used)
    ELSE <<Head(order)>> \o Unused(Tail(order), used)

\* The swarms constructed so far.
Constructed == {s \in SwarmIds : swarm_status[s] # ""}

\* _initialize_swarm_templates: the bot types of each template, one entry per
\* bot in the order _handle_create_swarm creates them.
SwarmTemplates ==
    [code_analysis |-> <<"analyzer", "analyzer", "monitor">>,
     code_generation |-> <<"generator", "generator", "analyzer">>,
     full_service |-> <<"analyzer", "analyzer", "generator", "generator", "monitor">>]

\* bot_classes of _handle_create_bot.
BotClasses == {"analyzer", "generator", "monitor"}

\* DirectorBot.command_handlers
CommandHandlers ==
    {"create_bot", "create_swarm", "start_bot", "stop_bot", "start_swarm", "stop_swarm",
     "get_status", "delegate_command", "broadcast_to_swarm", "list_bots", "list_swarms"}

\* command_to_bot_mapping of _handle_delegate_command.
CommandToBotMapping ==
    [analyze_code |-> "analyzer", quality_check |-> "analyzer",
     generate_code |-> "generator", create_tests |-> "generator",
     health_check |-> "monitor", monitor_system |-> "monitor"]

\* A call in progress: its gather's tasks not yet run, whether a task has ended
\* with an exception (raised), and the tasks suspended at an await (pending).
NoCall == [op |-> "none", via |-> "", swarm |-> "", cmd |-> NoCmd, tasks |-> <<>>,
           raised |-> FALSE, pending |-> {}]

\* Members of a caller's own classes: one whose start() and stop() raise, and
\* one whose start() and stop() await before they act.
CallerTypes == {"faulty", "slow"}

\* What a handler of the Director does: it raises, or it constructs and
\* registers bots (create), registers a swarm of them (swarm), puts the
\* command on a bot's queue (put), starts or stops a bot (start, stop), or
\* awaits a gather over the members of a swarm (gather), which op names.
NoEffect ==
    [raised |-> FALSE, error |-> "", create |-> <<>>, swarm |-> FALSE,
     put |-> "", start |-> "", stop |-> "", gather |-> "", op |-> ""]

\* A variant of the routing that takes the first idle bot whatever its type.
DelegateTargetAnyType(c) ==
    IF c.target_bot # "" /\ c.target_bot \in Range(sub_bots) THEN c.target_bot
    ELSE LET idle == {i \in DOMAIN sub_bots : status[sub_bots[i]] = "idle"}
         IN IF idle # {} THEN sub_bots[CHOOSE i \in idle : \A k \in idle : i <= k]
            ELSE c.target_bot

\* _handle_delegate_command: the bot the command is routed to, "" for none.
DelegateTarget(c) ==
    IF c.target_bot # "" /\ c.target_bot \in Range(sub_bots) THEN c.target_bot
    ELSE LET idle == {i \in DOMAIN sub_bots :
                        /\ c.command_type \in DOMAIN CommandToBotMapping
                        /\ bot_type[sub_bots[i]] = CommandToBotMapping[c.command_type]
                        /\ status[sub_bots[i]] = "idle"}
         IN IF idle # {} THEN sub_bots[CHOOSE i \in idle : \A k \in idle : i <= k]
            ELSE c.target_bot

\* A variant of the delegation that falls back to the first registered bot.
HandleDelegateCommandFallback(c) ==
    LET t == DelegateTarget(c)
    IN IF t = "" \/ t \notin Range(sub_bots)
       THEN IF sub_bots = <<>>
            THEN [NoEffect EXCEPT !.raised = TRUE, !.error = "No suitable bot found"]
            ELSE [NoEffect EXCEPT !.put = sub_bots[1]]
       ELSE [NoEffect EXCEPT !.put = t]

\* _handle_delegate_command
HandleDelegateCommand(c) ==
    LET t == DelegateTarget(c)
    IN IF t = "" \/ t \notin Range(sub_bots)
       THEN [NoEffect EXCEPT !.raised = TRUE, !.error = "No suitable bot found"]
       ELSE [NoEffect EXCEPT !.put = t]

\* _handle_create_bot: a type without a class goes to SubBot(bot_id, bot_name),
\* whose constructor reads bot_type.value on the name and raises AttributeError.
HandleCreateBot(c) ==
    LET t == Get(c.parameters, "bot_type", "custom")
    IN IF t \in BotClasses THEN [NoEffect EXCEPT !.create = <<t>>]
       ELSE [NoEffect EXCEPT !.raised = TRUE, !.error = "no attribute 'value'"]

\* A variant of the swarm creation that makes one bot per type of the template.
HandleCreateSwarmOnePerType(c) ==
    LET template_name == Get(c.parameters, "template", "")
        types == IF template_name \in DOMAIN SwarmTemplates
                 THEN SwarmTemplates[template_name] ELSE <<>>
    IN [NoEffect EXCEPT !.swarm = TRUE,
                        !.create = SelectSeq(types, LAMBDA t : t # "analyzer")
                                   \o (IF \E i \in DOMAIN types : types[i] = "analyzer"
                                       THEN <<"analyzer">> ELSE <<>>)]

\* _handle_create_swarm
HandleCreateSwarm(c) ==
    LET template_name == Get(c.parameters, "template", "")
    IN [NoEffect EXCEPT !.swarm = TRUE,
                        !.create = IF template_name \in DOMAIN SwarmTemplates
                                   THEN SwarmTemplates[template_name] ELSE <<>>]

\* A variant of _handle_start_bot without the lookup in the registry.
HandleStartBotUnchecked(c) ==
    [NoEffect EXCEPT !.start = Get(c.parameters, "bot_id", "")]

\* _handle_start_bot
HandleStartBot(c) ==
    LET bot_id == Get(c.parameters, "bot_id", "")
    IN IF bot_id \notin Range(sub_bots)
       THEN [NoEffect EXCEPT !.raised = TRUE, !.error = "Bot not found"]
       ELSE [NoEffect EXCEPT !.start = bot_id]

\* _handle_stop_bot
HandleStopBot(c) ==
    LET bot_id == Get(c.parameters, "bot_id", "")
    IN IF bot_id \notin Range(sub_bots)
       THEN [NoEffect EXCEPT !.raised = TRUE, !.error = "Bot not found"]
       ELSE [NoEffect EXCEPT !.stop = bot_id]

\* _handle_broadcast_to_swarm
HandleBroadcastToSwarm(c) ==
    IF c.target_swarm = "" \/ c.target_swarm \notin Range(swarms)
    THEN [NoEffect EXCEPT !.raised = TRUE, !.error = "Swarm not found"]
    ELSE [NoEffect EXCEPT !.gather = c.target_swarm, !.op = "broadcast"]

\* _handle_start_swarm
HandleStartSwarm(c) ==
    LET swarm_id == Get(c.parameters, "swarm_id", "")
    IN IF swarm_id \notin Range(swarms)
       THEN [NoEffect EXCEPT !.raised = TRUE, !.error = "Swarm not found"]
       ELSE [NoEffect EXCEPT !.gather = swarm_id, !.op = "start_all"]

\* _handle_stop_swarm
HandleStopSwarm(c) ==
    LET swarm_id == Get(c.parameters, "swarm_id", "")
    IN IF swarm_id \notin Range(swarms)
       THEN [NoEffect EXCEPT !.raised = TRUE, !.error = "Swarm not found"]
       ELSE [NoEffect EXCEPT !.gather = swarm_id, !.op = "stop_all"]

\* execute_command of the Director: the handler of the table, or the
\* delegation for a type the table does not have.
Handler(c) ==
    CASE c.command_type = "create_bot" -> HandleCreateBot(c)
      [] c.command_type = "create_swarm" -> HandleCreateSwarm(c)
      [] c.command_type = "start_bot" -> HandleStartBot(c)
      [] c.command_type = "stop_bot" -> HandleStopBot(c)
      [] c.command_type = "start_swarm" -> HandleStartSwarm(c)
      [] c.command_type = "stop_swarm" -> HandleStopSwarm(c)
      [] c.command_type = "broadcast_to_swarm" -> HandleBroadcastToSwarm(c)
      [] OTHER -> HandleDelegateCommand(c)

\* A variant that gives every member's command the id of the original.
MemberCommandIdSame(command_id, b) == <<command_id, "">>

\* The id broadcast_command gives the command of a member: f"{command_id}_{bot_id}".
MemberCommandId(command_id, b) == <<command_id, b>>

\* broadcast_command: one new BotCommand per member, each to be put on the
\* member's queue by a task of the gather.
PutTasks(s, c) ==
    [i \in DOMAIN swarm_bots[s] |->
        [bot |-> swarm_bots[s][i],
         cmd |-> BotCommand(MemberCommandId(c.command_id, swarm_bots[s][i]),
                            c.command_type, c.filepath, "", "", c.parameters)]]

\* The tasks of a gather are made ready one after the other and none of them
\* suspends: the event loop, which runs ready tasks in the order they became
\* ready, runs them in a row.  cpu is held from the first to the last.
GatherCpu == [k |-> "gather", bot |-> "", id |-> 0]
TaskCpu == IF Tail(call.tasks) = <<>> THEN NoCpu ELSE GatherCpu

\* start_all and stop_all: one task per member, running its start() or stop().
MemberTasks(s) == [i \in DOMAIN swarm_bots[s] |-> [bot |-> swarm_bots[s][i], cmd |-> NoCmd]]

\* The commands a caller hands to the Director.
DirectorCommands(id) ==
    {BotCommand(id, "create_bot", FALSE, "", "", [bot_type |-> t]) :
        t \in BotClasses \cup {"custom"}}
    \cup {BotCommand(id, "create_swarm", FALSE, "", "", [template |-> t]) :
            t \in {"code_analysis", "no_such_template"}}
    \cup {BotCommand(id, "stop_bot", FALSE, "", "", [bot_id |-> b]) : b \in {"b1", "b2"}}
    \cup {BotCommand(id, t, FALSE, b, "", NoParams) :
            t \in {"generate_code", "analyze_code", "ping", "delegate_command"},
            b \in {"", "b1", "b2"}}
    \cup {BotCommand(id, "broadcast_to_swarm", FALSE, "", s,
                     [swarm_id |-> "s1", command_type |-> "ping"]) : s \in {"", "s1"}}

\* The commands a caller hands to the Director to control bots and swarms,
\* naming ids the registries have and ids they do not have.
ControlCommands(id) ==
    {BotCommand(id, "create_bot", FALSE, "", "", [bot_type |-> "analyzer"]),
     BotCommand(id, "create_swarm", FALSE, "", "", [template |-> "code_analysis"])}
    \cup {BotCommand(id, t, FALSE, "", "", [bot_id |-> b]) :
            t \in {"start_bot", "stop_bot"}, b \in {"b1", "b4"}}
    \cup {BotCommand(id, t, FALSE, "", "", [swarm_id |-> w]) :
            t \in {"start_swarm", "stop_swarm"}, w \in {"s1", "s2"}}
    \cup {BotCommand(id, "broadcast_to_swarm", FALSE, "", w, [command_type |-> "ping"]) :
            w \in {"s1", "s2"}}

HistoryEntry(c, st, result, error) ==
    [command_id |-> c.command_id, command_type |-> c.command_type,
     status |-> st, result |-> result, error |-> error]

\* DirectorBot.execute_command, up to its return or to the gather of a broadcast.
\* The status broadcast after a handler returns at once: no listener is registered.
\* `outer` is the call another task is suspended in (NoCall when there is none).
Execute(c, outer) ==
    /\ cpu = NoCpu
    /\ websocket_clients = {}
    /\ next_id < MaxCmds
    /\ c.command_id = next_id + 1
    /\ LET e == Handler(c)
           slot == CHOOSE l \in LoopIds :
                      /\ loops[e.start][l].pc = "none"
                      /\ \A k \in LoopIds : k < l => loops[e.start][k].pc # "none"
           fresh == Unused(BotOrder, bots)
           made == [i \in 1..Len(e.create) |-> fresh[i]]
           sid == Head(Unused(SwarmOrder, Constructed))
           entry == Len(command_history) + 1
           logged == Append(command_history, HistoryEntry(c, "executing", "", ""))
       IN /\ Len(fresh) >= Len(e.create)
          /\ e.swarm => Unused(SwarmOrder, Constructed) # <<>>
          /\ e.start # "" => \E l \in LoopIds : loops[e.start][l].pc = "none"
          /\ e.op = "start_all" =>
                \A b \in Range(swarm_bots[e.gather]) : \E l \in LoopIds : loops[b][l].pc = "none"
          /\ next_id' = next_id + 1
          /\ director_metrics' =
                [commands_executed |-> director_metrics.commands_executed + 1,
                 error_count |-> director_metrics.error_count + (IF e.raised THEN 1 ELSE 0)]
          /\ bots' = bots \cup Range(made)
          /\ bot_type' = [b \in BotIds |->
                            IF b \in Range(made)
                            THEN e.create[CHOOSE i \in DOMAIN made : made[i] = b]
                            ELSE bot_type[b]]
          /\ sub_bots' = sub_bots \o made
          /\ swarms' = IF e.swarm THEN Append(swarms, sid) ELSE swarms
          /\ swarm_bots' = IF e.swarm THEN [swarm_bots EXCEPT ![sid] = made] ELSE swarm_bots
          /\ swarm_status' =
                CASE e.swarm -> [swarm_status EXCEPT ![sid] = "idle"]
                  [] e.op = "start_all" -> [swarm_status EXCEPT ![e.gather] = "starting"]
                  [] e.op = "stop_all" -> [swarm_status EXCEPT ![e.gather] = "stopping"]
                  [] OTHER -> swarm_status
          /\ command_queue' = IF e.put # ""
                              THEN [command_queue EXCEPT ![e.put] = Append(@, c)]
                              ELSE command_queue
          /\ status' = CASE e.stop # "" -> [status EXCEPT ![e.stop] = "stopped"]
                          [] e.start # "" -> [status EXCEPT ![e.start] = "idle"]
                          [] OTHER -> status
          /\ is_running' = CASE e.stop # "" -> [is_running EXCEPT ![e.stop] = FALSE]
                              [] e.start # "" -> [is_running EXCEPT ![e.start] = TRUE]
                              [] OTHER -> is_running
          /\ loops' = IF e.start # ""
                      THEN [loops EXCEPT ![e.start][slot] = [NoLoop EXCEPT !.pc = "new"]]
                      ELSE loops
          /\ IF e.gather # ""
             THEN /\ call' = [op |-> e.op, via |-> "director", swarm |-> e.gather,
                              cmd |-> c,
                              tasks |-> IF e.op = "broadcast" THEN PutTasks(e.gather, c)
                                        ELSE MemberTasks(e.gather),
                              raised |-> FALSE, pending |-> {}]
                  /\ command_history' = logged
                  /\ returned' = returned
             ELSE /\ call' = outer
                  /\ command_history' =
                        IF e.raised
                        THEN [logged EXCEPT ![entry] = HistoryEntry(c, "error", "", e.error)]
                        ELSE IF c.command_type \in CommandHandlers
                        THEN [logged EXCEPT ![entry] = HistoryEntry(c, "completed", "success", "")]
                        ELSE logged
                  /\ returned' = Append(returned,
                        [op |-> "execute", swarm |-> "", cmd |-> c, entry |-> entry,
                         status |-> IF e.raised THEN "error" ELSE "success",
                         target |-> e.put])
    /\ UNCHANGED <<metrics, cpu, began, ended>>
    /\ UNCHANGED <<healVars, wsVars>>

\* A caller awaits execute_command while no other call is in progress.
DirectorExecute(c) ==
    /\ call = NoCall
    /\ Execute(c, NoCall)

\* A second task calls execute_command while the first is suspended in the
\* gather of its handler; the command of the second has a handler that does
\* not suspend, so the second call runs to its return in one step.
DirectorOverlap(c) ==
    /\ call.op # "none"
    /\ call.via = "director"
    /\ Handler(c).gather = ""
    /\ Execute(c, call)

\* BotSwarm.start_all, up to its gather.
SwarmStartAll(s) ==
    /\ cpu = NoCpu
    /\ call = NoCall
    /\ s \in Constructed
    /\ Len(returned) < MaxOps
    /\ \A b \in Range(swarm_bots[s]) : \E l \in LoopIds : loops[b][l].pc = "none"
    /\ swarm_status' = [swarm_status EXCEPT ![s] = "starting"]
    /\ call' = [op |-> "start_all", via |-> "swarm", swarm |-> s, cmd |-> NoCmd,
                tasks |-> MemberTasks(s), raised |-> FALSE, pending |-> {}]
    /\ UNCHANGED <<sub_bots, swarms, swarm_bots, command_history, director_metrics, returned>>
    /\ UNCHANGED <<healVars, botVars, wsVars>>

\* BotSwarm.stop_all, up to its gather.
SwarmStopAll(s) ==
    /\ cpu = NoCpu
    /\ call = NoCall
    /\ s \in Constructed
    /\ Len(returned) < MaxOps
    /\ swarm_status' = [swarm_status EXCEPT ![s] = "stopping"]
    /\ call' = [op |-> "stop_all", via |-> "swarm", swarm |-> s, cmd |-> NoCmd,
                tasks |-> MemberTasks(s), raised |-> FALSE, pending |-> {}]
    /\ UNCHANGED <<sub_bots, swarms, swarm_bots, command_history, director_metrics, returned>>
    /\ UNCHANGED <<healVars, botVars, wsVars>>

\* The commands a caller broadcasts to a swarm: one whose handler returns at
\* once and one whose handler suspends.
SwarmCommands(id) ==
    {BotCommand(id, "ping", FALSE, "", "", NoParams),
     BotCommand(id, "analyze_code", TRUE, "", "", NoParams)}

\* BotSwarm.broadcast_command called on the swarm, up to its gather.
SwarmBroadcast(s, c) ==
    /\ cpu = NoCpu
    /\ call = NoCall
    /\ s \in Constructed
    /\ Len(returned) < MaxOps
    /\ next_id < MaxBroadcasts
    /\ c \in SwarmCommands(next_id + 1)
    /\ next_id' = next_id + 1
    /\ call' = [op |-> "broadcast", via |-> "swarm", swarm |-> s, cmd |-> c,
                tasks |-> PutTasks(s, c), raised |-> FALSE, pending |-> {}]
    /\ UNCHANGED <<bots, bot_type, status, is_running, command_queue, metrics, loops, cpu,
                   began, ended>>
    /\ UNCHANGED <<sub_bots, swarms, swarm_bots, swarm_status, command_history,
                   director_metrics, returned>>
    /\ UNCHANGED <<healVars, wsVars>>

\* A task of start_all's gather: start() of member b, which has no await.
StartTask(b) ==
    /\ cpu \in {NoCpu, GatherCpu}
    /\ call.op = "start_all"
    /\ call.tasks # <<>>
    /\ Head(call.tasks).bot = b
    /\ bot_type[b] \notin CallerTypes
    /\ \E l \in LoopIds :
         /\ loops[b][l].pc = "none"
         /\ \A k \in LoopIds : k < l => loops[b][k].pc # "none"
         /\ loops' = [loops EXCEPT ![b][l] = [NoLoop EXCEPT !.pc = "new"]]
    /\ status' = [status EXCEPT ![b] = "idle"]
    /\ is_running' = [is_running EXCEPT ![b] = TRUE]
    /\ call' = [call EXCEPT !.tasks = Tail(@)]
    /\ cpu' = TaskCpu
    /\ UNCHANGED <<bots, bot_type, command_queue, metrics, next_id, began, ended>>
    /\ UNCHANGED <<sub_bots, swarms, swarm_bots, swarm_status, command_history,
                   director_metrics, returned>>
    /\ UNCHANGED <<healVars, wsVars>>

\* A task of stop_all's gather: stop() of member b, which has no await.
StopTask(b) ==
    /\ cpu \in {NoCpu, GatherCpu}
    /\ call.op = "stop_all"
    /\ call.tasks # <<>>
    /\ Head(call.tasks).bot = b
    /\ bot_type[b] \notin CallerTypes
    /\ status' = [status EXCEPT ![b] = "stopped"]
    /\ is_running' = [is_running EXCEPT ![b] = FALSE]
    /\ call' = [call EXCEPT !.tasks = Tail(@)]
    /\ cpu' = TaskCpu
    /\ UNCHANGED <<bots, bot_type, command_queue, metrics, loops, next_id, began, ended>>
    /\ UNCHANGED <<sub_bots, swarms, swarm_bots, swarm_status, command_history,
                   director_metrics, returned>>
    /\ UNCHANGED <<healVars, wsVars>>

\* A task of broadcast_command's gather: command_queue.put of member b.
PutTask(b) ==
    /\ cpu \in {NoCpu, GatherCpu}
    /\ call.op = "broadcast"
    /\ call.tasks # <<>>
    /\ Head(call.tasks).bot = b
    /\ command_queue' = [command_queue EXCEPT ![b] = Append(@, Head(call.tasks).cmd)]
    /\ call' = [call EXCEPT !.tasks = Tail(@)]
    /\ cpu' = TaskCpu
    /\ UNCHANGED <<bots, bot_type, status, is_running, metrics, loops, next_id,
                   began, ended>>
    /\ UNCHANGED <<sub_bots, swarms, swarm_bots, swarm_status, command_history,
                   director_metrics, returned>>
    /\ UNCHANGED <<healVars, wsVars>>

\* A task of the gather of start_all or stop_all: start() or stop() of a
\* member whose method raises.
TaskRaise(b) ==
    /\ cpu \in {NoCpu, GatherCpu}
    /\ call.op \in {"start_all", "stop_all"}
    /\ call.tasks # <<>>
    /\ Head(call.tasks).bot = b
    /\ bot_type[b] = "faulty"
    /\ call' = [call EXCEPT !.tasks = Tail(@), !.raised = TRUE]
    /\ cpu' = TaskCpu
    /\ UNCHANGED <<bots, bot_type, status, is_running, command_queue, metrics, loops,
                   next_id, began, ended>>
    /\ UNCHANGED <<sub_bots, swarms, swarm_bots, swarm_status, command_history,
                   director_metrics, returned>>
    /\ UNCHANGED <<healVars, wsVars>>

\* A task of the gather: start() or stop() of a member whose method awaits
\* before it acts; the task is suspended and the next one runs.
TaskSuspend(b) ==
    /\ cpu \in {NoCpu, GatherCpu}
    /\ call.op \in {"start_all", "stop_all"}
    /\ call.tasks # <<>>
    /\ Head(call.tasks).bot = b
    /\ bot_type[b] = "slow"
    /\ call' = [call EXCEPT !.tasks = Tail(@),
                            !.pending = @ \cup {[bot |-> b, op |-> call.op]}]
    /\ cpu' = TaskCpu
    /\ UNCHANGED <<bots, bot_type, status, is_running, command_queue, metrics, loops,
                   next_id, began, ended>>
    /\ UNCHANGED <<sub_bots, swarms, swarm_bots, swarm_status, command_history,
                   director_metrics, returned>>
    /\ UNCHANGED <<healVars, wsVars>>

\* A suspended task is resumed and runs SubBot.start or SubBot.stop to its
\* end; gather does not cancel it when another task has raised.
TaskResume(b) ==
    /\ cpu = NoCpu
    /\ \E p \in call.pending :
         /\ p.bot = b
         /\ call' = [call EXCEPT !.pending = @ \ {p}]
         /\ IF p.op = "start_all"
            THEN /\ \E l \in LoopIds :
                      /\ loops[b][l].pc = "none"
                      /\ \A k \in LoopIds : k < l => loops[b][k].pc # "none"
                      /\ loops' = [loops EXCEPT ![b][l] = [NoLoop EXCEPT !.pc = "new"]]
                 /\ status' = [status EXCEPT ![b] = "idle"]
                 /\ is_running' = [is_running EXCEPT ![b] = TRUE]
            ELSE /\ status' = [status EXCEPT ![b] = "stopped"]
                 /\ is_running' = [is_running EXCEPT ![b] = FALSE]
                 /\ loops' = loops
    /\ UNCHANGED <<bots, bot_type, command_queue, metrics, cpu, next_id, began, ended>>
    /\ UNCHANGED <<sub_bots, swarms, swarm_bots, swarm_status, command_history,
                   director_metrics, returned>>
    /\ UNCHANGED <<healVars, wsVars>>

\* gather(*tasks) without return_exceptions: once every task has had its first
\* run, the first exception is raised out of the await; start_all or stop_all
\* of the caller's swarm ends there, its status left at starting or stopping,
\* and the suspended tasks stay suspended.
GatherRaise ==
    /\ cpu = NoCpu
    /\ call.op \in {"start_all", "stop_all"}
    /\ call.via = "swarm"
    /\ call.tasks = <<>>
    /\ call.raised
    /\ returned' = Append(returned,
          [op |-> call.op, swarm |-> call.swarm, cmd |-> call.cmd,
           entry |-> Len(command_history), status |-> "raised", target |-> ""])
    /\ call' = [NoCall EXCEPT !.pending = call.pending]
    /\ UNCHANGED <<sub_bots, swarms, swarm_bots, swarm_status, command_history,
                   director_metrics>>
    /\ UNCHANGED <<healVars, botVars, wsVars>>

\* The gather is done and the call returns: start_all and stop_all set the
\* swarm's status; execute_command of the Director completes its history entry.
CallReturn ==
    /\ cpu = NoCpu
    /\ call.op # "none"
    /\ call.tasks = <<>>
    /\ ~call.raised
    /\ call.pending = {}
    /\ swarm_status' =
          CASE call.op = "start_all" -> [swarm_status EXCEPT ![call.swarm] = "active"]
            [] call.op = "stop_all" -> [swarm_status EXCEPT ![call.swarm] = "stopped"]
            [] OTHER -> swarm_status
    /\ command_history' =
          IF call.via = "director"
          THEN [command_history EXCEPT ![Len(command_history)] =
                   [@ EXCEPT !.status = "completed", !.result = "success"]]
          ELSE command_history
    /\ returned' = Append(returned,
          [op |-> IF call.via = "director" THEN "execute" ELSE call.op,
           swarm |-> call.swarm, cmd |-> call.cmd, entry |-> Len(command_history),
           status |-> "success", target |-> ""])
    /\ call' = NoCall
    /\ UNCHANGED <<sub_bots, swarms, swarm_bots, director_metrics>>
    /\ UNCHANGED <<healVars, botVars, wsVars>>

(***************************************************************************)
(* DirectorBot: the listeners of real-time updates                         *)
(***************************************************************************)
\* The websocket connections that can register as listeners.
Clients == {"w1", "w2"}
CastIds == 1..MaxCasts

\* A _broadcast_to_websockets call: where it is, the copy of the listener set
\* it iterates over, the listeners its send() returned for, and its
\* disconnected_clients.
NoCast == [pc |-> "none", snapshot |-> {}, delivered |-> {}, disconnected |-> {}]

\* A variant of the loop that a failed send() ends.
RemainingUntilFailure(c) ==
    IF c.disconnected # {} THEN {} ELSE c.snapshot \ c.delivered

\* The listeners the loop of a broadcast has still to visit.
Remaining(c) == c.snapshot \ (c.delivered \cup c.disconnected)

\* add_websocket_client
AddWebsocketClient(w) ==
    /\ websocket_clients' = websocket_clients \cup {w}
    /\ UNCHANGED <<closed, casts>>
    /\ UNCHANGED <<healVars, botVars, dirVars>>

\* remove_websocket_client
RemoveWebsocketClient(w) ==
    /\ websocket_clients' = websocket_clients \ {w}
    /\ UNCHANGED <<closed, casts>>
    /\ UNCHANGED <<healVars, botVars, dirVars>>

\* The connection of w is closed by its peer: from now on send() raises
\* websockets.exceptions.ConnectionClosed.
ConnectionClose(w) ==
    /\ w \notin closed
    /\ closed' = closed \cup {w}
    /\ UNCHANGED <<websocket_clients, casts>>
    /\ UNCHANGED <<healVars, botVars, dirVars>>

\* _broadcast_to_websockets, up to its loop: it returns at once when there is
\* no listener, else it iterates over a copy of the set.
BroadcastBegin(k) ==
    /\ casts[k].pc = "none"
    /\ \A j \in CastIds : j < k => casts[j].pc # "none"
    /\ casts' = [casts EXCEPT ![k] =
                    IF websocket_clients = {} THEN [NoCast EXCEPT !.pc = "done"]
                    ELSE [NoCast EXCEPT !.pc = "send", !.snapshot = websocket_clients]]
    /\ UNCHANGED <<websocket_clients, closed>>
    /\ UNCHANGED <<healVars, botVars, dirVars>>

\* One turn of the loop: await client.send(message) for a listener of the copy
\* (a set is iterated in no particular order); an exception of the send is
\* caught and the listener goes to disconnected_clients.
BroadcastSend(k) ==
    /\ casts[k].pc = "send"
    /\ \E w \in Remaining(casts[k]) :
         casts' = IF w \in closed
                  THEN [casts EXCEPT ![k].disconnected = @ \cup {w}]
                  ELSE [casts EXCEPT ![k].delivered = @ \cup {w}]
    /\ UNCHANGED <<websocket_clients, closed>>
    /\ UNCHANGED <<healVars, botVars, dirVars>>

\* The loop is over: self.websocket_clients -= disconnected_clients.
BroadcastEnd(k) ==
    /\ casts[k].pc = "send"
    /\ Remaining(casts[k]) = {}
    /\ websocket_clients' = websocket_clients \ casts[k].disconnected
    /\ casts' = [casts EXCEPT ![k].pc = "done"]
    /\ UNCHANGED closed
    /\ UNCHANGED <<healVars, botVars, dirVars>>

\* DirectorBot.__init__: no listener; no broadcast has been made.
ListenerInit ==
    /\ websocket_clients = {}
    /\ closed = {}
    /\ casts = [k \in CastIds |-> NoCast]

\* DirectorBot.__init__, and no BotSwarm constructed.
DirectorInit ==
    /\ sub_bots = <<>>
    /\ swarms = <<>>
    /\ swarm_bots = [s \in SwarmIds |-> <<>>]
    /\ swarm_status = [s \in SwarmIds |-> ""]
    /\ command_history = <<>>
    /\ director_metrics = [commands_executed |-> 0, error_count |-> 0]
    /\ call = NoCall
    /\ returned = <<>>
    /\ ListenerInit

\* The bots a caller adds to a swarm of its own: an AnalyzerBot, or an
\* AnalyzerBot and a MonitorBot.
MemberTypes == {<<"analyzer">>, <<"analyzer", "monitor">>}

\* BotSwarm("s1") with add_bot called for n bots the caller constructed.
SwarmInit(n) ==
    /\ sub_bots = <<>>
    /\ swarms = <<>>
    /\ swarm_bots = [s \in SwarmIds |-> IF s = "s1" THEN SubSeq(BotOrder, 1, n) ELSE <<>>]
    /\ swarm_status = [s \in SwarmIds |-> IF s = "s1" THEN "idle" ELSE ""]
    /\ command_history = <<>>
    /\ director_metrics = [commands_executed |-> 0, error_count |-> 0]
    /\ call = NoCall
    /\ returned = <<>>
    /\ ListenerInit

(***************************************************************************)
(* Specifications                                                          *)
(***************************************************************************)
\* The two modules after construction.
Init == HealInit({<<>>}) /\ BotInit /\ DirectorInit

\* The same with a recovery queue a caller has filled.
InitQueued == HealInit(Queues) /\ BotInit /\ DirectorInit

\* The times at which the runs look at the clock: inside the 60 s cooldown
\* of the memory action, just after it, and just after the default 300 s.
SchedTimes == {10, 61, 301}

\* The health checks, and the recovery scheduler called on a filled queue.
\* Analyze, HandleAlert, Store, Trim and Wake continue a health check whose
\* _collect_metrics returned; with `time` unbound none does, and no run
\* enables them.
Next ==
    \/ \E t \in Threads : MonitorCollect(t, SchedSamples, MaxChecks)
    \/ ForceCollect(SchedSamples, MaxChecks)
    \/ \E a \in ActionTypes : ScheduleCall(a)
    \/ DrainCall
    \/ \E t \in Threads : DrainPop(t)
    \/ \E t \in Threads : DrainRecord(t)
    \/ \E t \in Threads : DrainEnd(t)
    \/ AdvanceClock(SchedTimes)

Spec == InitQueued /\ [][Next]_vars

\* The scheduler called on a filled queue, and the autonomy switch.
HistoryNext ==
    \/ \E a \in ActionTypes : ScheduleCall(a)
    \/ DrainCall
    \/ \E t \in Threads : DrainPop(t)
    \/ \E t \in Threads : DrainRecord(t)
    \/ \E t \in Threads : DrainEnd(t)
    \/ EnableAutonomy
    \/ DisableAutonomy

SpecHistory == InitQueued /\ [][HistoryNext]_vars

\* The health checks, the autonomy switch and the scheduling calls on the
\* module as constructed.
ScheduleNext ==
    \/ \E t \in Threads : MonitorCollect(t, SchedSamples, MaxChecks)
    \/ \E t \in Threads : MonitorExit(t)
    \/ ForceCollect(SchedSamples, MaxChecks)
    \/ EnableAutonomy
    \/ DisableAutonomy
    \/ \E a \in ActionTypes : ScheduleCall(a)
    \/ AdvanceClock(SchedTimes)

SpecSchedule == Init /\ [][ScheduleNext]_vars

\* A caller drains a queue of restarts and rollbacks.
InitDeclined == HealInit(DeclinedQueues) /\ BotInit /\ DirectorInit

DeclinedNext ==
    \/ DrainCall
    \/ \E t \in Threads : DrainPop(t)
    \/ \E t \in Threads : DrainRecord(t)
    \/ \E t \in Threads : DrainEnd(t)

SpecDeclined == InitDeclined /\ [][DeclinedNext]_vars

\* Two threads drain a queue a caller has filled; the interpreter may or may
\* not switch threads inside the bookkeeping of an action.
RaceNext ==
    \/ DrainCall
    \/ DrainCallOther
    \/ \E t \in Threads : DrainPop(t)
    \/ \E t \in Threads : DrainRecord(t)
    \/ \E t \in Threads : RecordRead(t)
    \/ \E t \in Threads : RecordWrite(t)
    \/ \E t \in Threads : DrainEnd(t)

SpecRace == InitQueued /\ [][RaceNext]_vars

\* The snapshots a caller feeds the monitor.
FeedSamples == {Quiet, HotCPU, HotMem}

\* The alerts of the module as constructed: its monitor thread, the autonomy
\* switch, and the snapshots a caller feeds.
AlertNext ==
    \/ \E t \in Threads : MonitorCollect(t, FeedSamples, MaxChecks)
    \/ \E t \in Threads : MonitorExit(t)
    \/ EnableAutonomy
    \/ DisableAutonomy
    \/ FeedMetrics(FeedSamples, MaxChecks)
    \/ \E t \in Threads : Analyze(t)
    \/ \E t \in Threads : HandleAlert(t)
    \/ \E t \in Threads : Store(t)

SpecAlerts == Init /\ [][AlertNext]_vars

\* A caller feeds the monitor one snapshot after the other, each with the CPU
\* value of the one before or the next higher one.
TrendNext ==
    \/ FeedMetrics(TrendSamples, MaxFeeds)
    \/ \E t \in Threads : Analyze(t)
    \/ \E t \in Threads : HandleAlert(t)
    \/ \E t \in Threads : Store(t)

SpecTrend == Init /\ [][TrendNext]_vars

\* The monitor of the module as constructed: its thread, the calls that start
\* and stop it, the autonomy switch, the summary, and quiet snapshots fed by a
\* caller.
MonitorNext ==
    \/ \E t \in Threads : MonitorCollect(t, {Quiet}, MaxChecks)
    \/ \E t \in Threads : MonitorExit(t)
    \/ StartMonitoringCall
    \/ StopMonitoringCall
    \/ EnableAutonomy
    \/ DisableAutonomy
    \/ SummaryCall
    \/ FeedMetrics({Quiet}, MaxChecks)
    \/ \E t \in Threads : Analyze(t)
    \/ \E t \in Threads : Store(t)

SpecMonitor == Init /\ [][MonitorNext]_vars

\* One Agent: start(), stop(), commands put on its queue, and its processing loops.
AgentNext ==
    \/ \E b \in BotIds : StartBegin(b)
    \/ \E b \in BotIds : StartEnd(b)
    \/ \E b \in BotIds : StopBegin(b)
    \/ \E b \in BotIds : StopEnd(b)
    \/ \E b \in BotIds : \E c \in Commands(next_id + 1) : Enqueue(b, c)
    \/ \E b \in BotIds, l \in LoopIds : LoopFirstRun(b, l)
    \/ \E b \in BotIds, l \in LoopIds : LoopGet(b, l)
    \/ \E b \in BotIds, l \in LoopIds : LoopTimeout(b, l)
    \/ \E b \in BotIds, l \in LoopIds : ExecStep(b, l)
    \/ \E b \in BotIds, l \in LoopIds : ShutdownFinish(b, l)
    \/ \E b \in BotIds, l \in LoopIds : HandlerWake(b, l)
    \/ \E b \in BotIds, l \in LoopIds : LoopAfter(b, l)

SpecAgent == Init /\ [][AgentNext]_vars

\* The event loop runs every task that is ready: a started coroutine goes on
\* to its next suspension, and a loop task whose wait_for can return (a
\* command on the queue, or the 1 s timeout) is resumed.  A task that is ready
\* stays ready until it runs; it is only while another coroutine runs (cpu
\* held) that its step is not enabled, hence the strong fairness of the steps
\* that begin with the cpu free.  The tasks are those of the one bot of Init.
LoopFairness ==
    /\ \A b \in {BotOrder[1]} : WF_vars(StartEnd(b)) /\ WF_vars(StopEnd(b))
    /\ \A b \in {BotOrder[1]}, l \in LoopIds :
          /\ SF_vars(LoopFirstRun(b, l))
          /\ SF_vars(LoopGet(b, l))
          /\ SF_vars(LoopTimeout(b, l))
          /\ WF_vars(ExecStep(b, l))
          /\ WF_vars(ShutdownFinish(b, l))
          /\ SF_vars(HandlerWake(b, l))
          /\ WF_vars(LoopAfter(b, l))

\* One Agent under the event loop's scheduling.
SpecAgentFair == Init /\ [][AgentNext]_vars /\ LoopFairness

\* The Director as constructed, and a caller that awaits one execute_command
\* after the other.
InitDirector == HealInit({<<>>}) /\ BotsInit(<<>>) /\ DirectorInit

DirectorNext ==
    \/ \E c \in DirectorCommands(next_id + 1) : DirectorExecute(c)
    \/ \E b \in BotIds : PutTask(b)
    \/ CallReturn

SpecDirector == InitDirector /\ [][DirectorNext]_vars

\* The Director controlling bots and swarms; the loops its commands start are
\* not scheduled.
ControlNext ==
    \/ \E c \in ControlCommands(next_id + 1) : DirectorExecute(c)
    \/ \E b \in BotIds : StartTask(b)
    \/ \E b \in BotIds : StopTask(b)
    \/ \E b \in BotIds : PutTask(b)
    \/ CallReturn

SpecControl == InitDirector /\ [][ControlNext]_vars

\* A swarm of the caller's own bots: start_all, stop_all and broadcast_command
\* called one after the other, and the members' processing loops.
InitSwarm ==
    /\ HealInit({<<>>})
    /\ \E types \in MemberTypes : BotsInit(types) /\ SwarmInit(Len(types))

SwarmNext ==
    \/ \E s \in SwarmIds : SwarmStartAll(s)
    \/ \E s \in SwarmIds : SwarmStopAll(s)
    \/ \E s \in SwarmIds : \E c \in SwarmCommands(next_id + 1) : SwarmBroadcast(s, c)
    \/ \E b \in BotIds : StartTask(b)
    \/ \E b \in BotIds : StopTask(b)
    \/ \E b \in BotIds : PutTask(b)
    \/ CallReturn
    \/ \E b \in BotIds, l \in LoopIds : LoopFirstRun(b, l)
    \/ \E b \in BotIds, l \in LoopIds : LoopGet(b, l)
    \/ \E b \in BotIds, l \in LoopIds : LoopTimeout(b, l)
    \/ \E b \in BotIds, l \in LoopIds : ExecStep(b, l)
    \/ \E b \in BotIds, l \in LoopIds : HandlerWake(b, l)
    \/ \E b \in BotIds, l \in LoopIds : LoopAfter(b, l)

SpecSwarm == InitSwarm /\ [][SwarmNext]_vars

\* The Director with two tasks calling execute_command: the second may call
\* while the first is suspended in a gather.
OverlapNext ==
    \/ \E c \in ControlCommands(next_id + 1) : DirectorExecute(c)
    \/ \E c \in ControlCommands(next_id + 1) : DirectorOverlap(c)
    \/ \E b \in BotIds : StartTask(b)
    \/ \E b \in BotIds : StopTask(b)
    \/ \E b \in BotIds : PutTask(b)
    \/ CallReturn

SpecOverlap == InitDirector /\ [][OverlapNext]_vars

\* A swarm of two or three of the caller's bots, of the repository's classes
\* and of the caller's own; start_all and stop_all are called one after the
\* other, and the loops they start are not scheduled.
BarrierTypes == UNION {[1..n -> {"analyzer"} \cup CallerTypes] : n \in 2..3}

InitBarrier ==
    /\ HealInit({<<>>})
    /\ \E types \in BarrierTypes : BotsInit(types) /\ SwarmInit(Len(types))

BarrierNext ==
    \/ \E s \in SwarmIds : SwarmStartAll(s)
    \/ \E s \in SwarmIds : SwarmStopAll(s)
    \/ \E b \in BotIds : StartTask(b)
    \/ \E b \in BotIds : StopTask(b)
    \/ \E b \in BotIds : TaskRaise(b)
    \/ \E b \in BotIds : TaskSuspend(b)
    \/ \E b \in BotIds : TaskResume(b)
    \/ GatherRaise
    \/ CallReturn

SpecBarrier == InitBarrier /\ [][BarrierNext]_vars

\* The listeners: connections register, leave and close while broadcasts run.
ListenerNext ==
    \/ \E w \in Clients : AddWebsocketClient(w)
    \/ \E w \in Clients : RemoveWebsocketClient(w)
    \/ \E w \in Clients : ConnectionClose(w)
    \/ \E k \in CastIds : BroadcastBegin(k)
    \/ \E k \in CastIds : BroadcastSend(k)
    \/ \E k \in CastIds : BroadcastEnd(k)

SpecListeners == InitDirector /\ [][ListenerNext]_vars

(***************************************************************************)
(* Properties                                                              *)
(***************************************************************************)

\* The cooldown an action type is registered with (the default of
\* _was_recently_attempted for a type that registers none).
OwnCooldown(a) ==
    IF a \in DOMAIN RegisteredActions THEN RegisteredActions[a][3] ELSE default_cooldown

Recorded(a) == a \in DOMAIN action_history

\* The log positions of the events `op` of action type a.
EventsOf(op, a) == {i \in Events(op) : log[i].action_type = a}

Latest(S) == CHOOSE i \in S : \A k \in S : k <= i

\* No scheduler call is in progress.
SchedulerAtRest == \A t \in Threads : thr[t].pc \notin {"drain", "record"}

\* C2: when the same alert-derived action has been scheduled twice or more
\* with autonomy enabled and all those calls lie within its cooldown window,
\* exactly one attempt is recorded for it and nothing is left on the queue.
C2_OneAttemptPerCooldown ==
    \A a \in ActionTypes :
        LET calls == EventsOf("schedule", a)
        IN (/\ Cardinality(calls) >= 2
            /\ \A i, j \in calls : log[j].time - log[i].time < OwnCooldown(a)
            /\ autonomy_enabled
            /\ SchedulerAtRest)
           => /\ Recorded(a)
              /\ action_history[a].attempts = 1
              /\ recovery_actions = <<>>

\* The cooldown the memory action (clear_memory) is registered with.
MemoryCooldown == RegisteredActions["clear_memory"][3]

\* The schedule call at log position j led to a recorded attempt of a: an
\* attempt of a follows it before any other call.
Attempted(j, a) ==
    \E k \in EventsOf("attempt", a) :
        k > j /\ \A m \in (j + 1)..(k - 1) : log[m].op = "attempt"

\* C3: when the memory-pressure action was attempted at time t and is
\* scheduled again, the call records no new attempt if it comes less than the
\* memory action's 60 s after t (t+10), and records one if it comes later (t+61).
C3_MemoryCooldownIsItsOwn ==
    \A j \in EventsOf("schedule", "HighMemoryUsage") :
        LET before == {i \in EventsOf("attempt", "HighMemoryUsage") : i < j}
        IN (before # {} /\ SchedulerAtRest)
           => Attempted(j, "HighMemoryUsage")
                = (log[j].time - log[Latest(before)].time >= MemoryCooldown)

Count(seq, a) == Cardinality({i \in 1..Len(seq) : seq[i] = a})

\* C4: when a _process_recovery_queue call that popped both a failing and a
\* succeeding action returns, the queue is empty, every action it popped has
\* its attempts recorded, and the succeeding ones their successes.
C4_DrainProcessesAll ==
    [][\A t \in Threads :
          (/\ thr[t].pc = "drain"
           /\ thr'[t].pc \notin {"drain", "record"}
           /\ \E i, j \in 1..Len(thr[t].batch) :
                /\ ~ExecuteRecoveryAction(thr[t].batch[i])
                /\ ExecuteRecoveryAction(thr[t].batch[j]))
          => /\ recovery_actions' = <<>>
             /\ \A a \in ActionTypes :
                  Count(thr[t].batch, a) > 0
                  => /\ Recorded(a)
                     /\ action_history[a].attempts >= Count(thr[t].batch, a)
                     /\ ExecuteRecoveryAction(a)
                        => action_history[a].successes >= Count(thr[t].batch, a)]_vars

\* The loops of b inside a call of execute_command (entered, not yet returned).
Executing(b) == {l \in LoopIds : loops[b][l].pc \in {"sleeping", "stopping"}}

ErrorsReturned(b) == Cardinality({i \in 1..Len(ended[b]) : ended[b][i].status = "error"})

\* C5: after the N-th call of execute_command has returned, commands_executed
\* is N, error_count is the number of error outcomes and success_rate is
\* (N - error_count) / N * 100.
C5_MetricsExact ==
    \A b \in bots :
        LET N == Len(ended[b])
        IN (N >= 1 /\ Executing(b) = {})
           => /\ metrics[b].commands_executed = N
              /\ metrics[b].error_count = ErrorsReturned(b)
              /\ metrics[b].success_rate = Ratio(N - ErrorsReturned(b), N)

\* C6: execute_command on a command whose type is not in the handler table
\* returns an outcome with status 'error' (it does not raise: the loop goes on
\* to its next statement), and status, running flag and queue are unchanged;
\* the loop then goes back to waiting for commands while the Agent is running.
C6_UnknownCommandIsReported ==
    [][\A b \in bots, l \in LoopIds :
          LET unknown == loops[b][l].cmd.command_type \notin TaskHandlers(bot_type[b])
          IN /\ (loops[b][l].pc = "exec" /\ unknown /\ loops'[b][l] # loops[b][l])
                => /\ loops'[b][l].pc = "ret"
                   /\ loops'[b][l].result = "error"
                   /\ Len(ended'[b]) = Len(ended[b]) + 1
                   /\ ended'[b][Len(ended'[b])].status = "error"
                   /\ status'[b] = status[b]
                   /\ is_running'[b] = is_running[b]
                   /\ command_queue'[b] = command_queue[b]
             /\ (loops[b][l].pc = "ret" /\ unknown /\ loops'[b][l] # loops[b][l])
                => loops'[b][l].pc = (IF is_running[b] THEN "wait" ELSE "none")]_vars

\* C6 witness: an Agent returned an error outcome for a command of unknown
\* type and, after it, a success outcome for a known command.
C6_Witness ==
    \E b \in bots : \E i, j \in 1..Len(ended[b]) :
        /\ i < j
        /\ ended[b][i].command_type \notin TaskHandlers(bot_type[b])
        /\ ended[b][i].status = "error"
        /\ ended[b][j].command_type \in TaskHandlers(bot_type[b])
        /\ ended[b][j].status = "success"

Statuses == {"idle", "active", "error", "stopped", "starting", "stopping"}

\* The edges of the claimed lifecycle; start() and stop() may be called in
\* any status, so every status has an edge to starting and to stopping.
ClaimedEdges ==
    {<<"idle", "starting">>, <<"starting", "idle">>, <<"idle", "active">>,
     <<"active", "idle">>, <<"active", "error">>, <<"error", "idle">>,
     <<"idle", "stopping">>, <<"active", "stopping">>, <<"stopping", "stopped">>}
    \cup {<<s, "starting">> : s \in Statuses}
    \cup {<<s, "stopping">> : s \in Statuses}

\* C7: an Agent's status changes only along the edges of the lifecycle; no
\* step takes it from stopped to idle or active except through start().
C7_StatusEdges ==
    [][\A b \in bots :
          status'[b] # status[b] => <<status[b], status'[b]>> \in ClaimedEdges]_vars

\* C8: when the handler of a dequeued command raised, the processing loop
\* leaves the Agent's status at error once it has dealt with that command.
C8_HandlerFaultSetsError ==
    [][\A b \in bots, l \in LoopIds :
          (/\ loops[b][l].pc = "ret"
           /\ HandlerKind(bot_type[b], loops[b][l].cmd) = "raise"
           /\ loops'[b][l] # loops[b][l])
          => status'[b] = "error"]_vars

\* The _command_loop tasks of b that have started running and have not ended.
Consuming(b) == {l \in LoopIds : loops[b][l].pc \notin {"none", "new"}}

\* C9: at every moment at most one _command_loop task per Agent is consuming
\* its queue.
C9_SingleLoop == \A b \in bots : Cardinality(Consuming(b)) <= 1

Increasing(seq) == \A i, j \in 1..Len(seq) : i < j => seq[i] < seq[j]

\* C10: no two commands of one Agent are in execution at once, and commands
\* begin and complete in the order they were put on the queue (command ids
\* are given in that order).
C10_OneAtATimeFIFO ==
    \A b \in bots :
        /\ Cardinality(Executing(b)) <= 1
        /\ Increasing(began[b])
        /\ Increasing([i \in 1..Len(ended[b]) |-> ended[b][i].command_id])

\* C11: stop() cancels nothing (a step of stop() leaves every loop task, the
\* commands in execution included, where it is), and once stop() has returned
\* and until start() is called again no loop of the Agent takes a command off
\* its queue.
C11_StopIsCooperative ==
    [][\A b \in bots :
          /\ (cpu.k = "stop" \/ cpu'.k = "stop") => loops'[b] = loops[b]
          /\ \A l \in LoopIds :
                (loops[b][l].pc = "wait" /\ loops'[b][l].pc = "exec")
                => is_running[b]]_vars

\* C12: every loop task of an Agent that is alive when stop() is called on
\* the Agent eventually ends.
C12_LoopsEndAfterStop ==
    \A b \in BotIds, l \in LoopIds :
        (cpu = [k |-> "stop", bot |-> b, id |-> 0] /\ loops[b][l].pc # "none")
        ~> (loops[b][l].pc = "none")

\* C13: once stop_all() called right after start_all() on a swarm has
\* returned, and until the caller's next call, every member of the swarm has
\* status stopped and a false running flag, also after the loops that
\* start_all spawned have run.
C13_StartThenStopLeavesStopped ==
    LET n == Len(returned)
    IN (/\ n >= 2
        /\ call = NoCall
        /\ returned[n - 1].op = "start_all"
        /\ returned[n].op = "stop_all"
        /\ returned[n - 1].swarm = returned[n].swarm)
       => \A b \in Range(swarm_bots[returned[n].swarm]) :
             status[b] = "stopped" /\ ~is_running[b]

\* C14: for every execute_command call of the Director that has returned,
\* the history entry appended for its command is 'completed' with the result
\* when the outcome is a success and 'error' with the message when it is an
\* error; none is left 'executing'.
C14_HistoryEntryCompleted ==
    \A i \in DOMAIN returned :
        returned[i].op = "execute"
        => LET h == command_history[returned[i].entry]
           IN /\ h.command_id = returned[i].cmd.command_id
              /\ IF returned[i].status = "success"
                 THEN h.status = "completed" /\ h.result # ""
                 ELSE h.status = "error" /\ h.error # ""

\* The execute_command call of the Director that returns in this step: the
\* position of its record in returned', 0 when none returns.
Returning == IF Len(returned') = Len(returned) + 1 /\ returned'[Len(returned')].op = "execute"
             THEN Len(returned') ELSE 0

\* The registry positions of the idle bots of type t.
IdleOfType(t) == {i \in DOMAIN sub_bots : bot_type[sub_bots[i]] = t /\ status[sub_bots[i]] = "idle"}

\* C15: a command without a target whose type has a preferred bot type, when
\* some registered bot of that type is idle, is put on the queue of the first
\* such bot in registry order and on no other queue; the call succeeds.
C15_RoutedToFirstIdleOfType ==
    [][Returning # 0 =>
          LET r == returned'[Returning]
              c == r.cmd
          IN (/\ c.target_bot = ""
              /\ c.command_type \in DOMAIN CommandToBotMapping
              /\ IdleOfType(CommandToBotMapping[c.command_type]) # {})
             => LET cand == IdleOfType(CommandToBotMapping[c.command_type])
                    t == sub_bots[CHOOSE i \in cand : \A k \in cand : i <= k]
                IN /\ r.status = "success"
                   /\ command_queue'[t] = Append(command_queue[t], c)
                   /\ \A b \in BotIds \ {t} : command_queue'[b] = command_queue[b]]_vars

\* C15 witness: with analyzer b1 registered before generator b2, a
\* generate_code command without target was put on b2's queue and b1's queue
\* is empty.
C15_Witness ==
    /\ sub_bots = <<"b1", "b2">>
    /\ bot_type["b1"] = "analyzer" /\ bot_type["b2"] = "generator"
    /\ \E i \in DOMAIN returned :
          /\ returned[i].cmd.command_type = "generate_code"
          /\ returned[i].cmd.target_bot = ""
          /\ returned[i].target = "b2"
          /\ command_queue["b2"] = <<returned[i].cmd>>
    /\ command_queue["b1"] = <<>>

\* C16: a command of a type outside the Director's table, whose explicit
\* target is absent or not registered and for which no registered bot of the
\* preferred type is idle (or whose type has no preferred type), returns an
\* error outcome and is put on no queue: queues and registries are unchanged.
C16_NoSuitableBotIsAnError ==
    [][Returning # 0 =>
          LET r == returned'[Returning]
              c == r.cmd
          IN (/\ c.command_type \notin CommandHandlers
              /\ c.target_bot \notin Range(sub_bots)
              /\ \/ c.command_type \notin DOMAIN CommandToBotMapping
                 \/ IdleOfType(CommandToBotMapping[c.command_type]) = {})
             => /\ r.status = "error"
                /\ command_history'[r.entry].status = "error"
                /\ command_queue' = command_queue
                /\ sub_bots' = sub_bots
                /\ swarms' = swarms
                /\ swarm_bots' = swarm_bots]_vars

\* C16 witness: a delegated analyze_code returned an error while the only
\* registered analyzer is stopped, and every queue is empty.
C16_Witness ==
    /\ \E i \in DOMAIN returned :
          /\ returned[i].op = "execute"
          /\ returned[i].cmd.command_type = "analyze_code"
          /\ returned[i].status = "error"
          /\ returned[i].target = ""
    /\ sub_bots # <<>>
    /\ \A i \in DOMAIN sub_bots : bot_type[sub_bots[i]] = "analyzer" /\ status[sub_bots[i]] = "stopped"
    /\ \A b \in BotIds : command_queue[b] = <<>>

\* C17: a delegated command that names a target bot goes to that bot only:
\* when the target is registered the command is put on its queue, whatever
\* its type or status, and on no other; when it is not registered the command
\* is put on no queue.
C17_ExplicitTargetOnly ==
    [][Returning # 0 =>
          LET r == returned'[Returning]
              c == r.cmd
          IN (/\ c.command_type \notin CommandHandlers \ {"delegate_command"}
              /\ c.target_bot # "")
             => IF c.target_bot \in Range(sub_bots)
                THEN /\ command_queue'[c.target_bot] = Append(command_queue[c.target_bot], c)
                     /\ \A b \in BotIds \ {c.target_bot} : command_queue'[b] = command_queue[b]
                ELSE command_queue' = command_queue]_vars

\* The members of swarm s that have type t.
MembersOfType(s, t, types) == {i \in DOMAIN swarm_bots'[s] : types[swarm_bots'[s][i]] = t}

\* C18: a successful create_swarm from the template 'code_analysis' registers
\* a new swarm of exactly 3 new bots, 2 analyzers and 1 monitor, and after
\* every step each member of each registered swarm is in the Director's
\* registry of bots under its id.
C18_SwarmFromTemplate ==
    [][/\ \A i \in DOMAIN swarms' : Range(swarm_bots'[swarms'[i]]) \subseteq Range(sub_bots')
       /\ Returning # 0 =>
             LET c == returned'[Returning].cmd
             IN (/\ c.command_type = "create_swarm"
                 /\ Get(c.parameters, "template", "") = "code_analysis")
                => /\ returned'[Returning].status = "success"
                   /\ Len(swarms') = Len(swarms) + 1
                   /\ LET s == swarms'[Len(swarms')]
                      IN /\ s \notin Range(swarms)
                         /\ Len(swarm_bots'[s]) = 3
                         /\ Cardinality(Range(swarm_bots'[s])) = 3
                         /\ Range(swarm_bots'[s]) \cap Range(sub_bots) = {}
                         /\ Cardinality(MembersOfType(s, "analyzer", bot_type')) = 2
                         /\ Cardinality(MembersOfType(s, "monitor", bot_type')) = 1]_vars

\* C18 witness: a bot created on its own and then a swarm of three members,
\* all four in the registry.
C18_Witness ==
    /\ swarms = <<"s1">>
    /\ Len(swarm_bots["s1"]) = 3
    /\ Len(sub_bots) = 4
    /\ sub_bots[1] \notin Range(swarm_bots["s1"])
    /\ Range(swarm_bots["s1"]) \subseteq Range(sub_bots)

\* C19: when execute_command returns for a broadcast_to_swarm command whose
\* parameters name a registered swarm (swarm_id) and an inner command type,
\* the last command on every member's queue has the inner type, and not the
\* type 'broadcast_to_swarm'.
C19_BroadcastCarriesInnerType ==
    [][Returning # 0 =>
          LET c == returned'[Returning].cmd
          IN (/\ c.command_type = "broadcast_to_swarm"
              /\ Get(c.parameters, "swarm_id", "") \in Range(swarms))
             => \A b \in Range(swarm_bots[Get(c.parameters, "swarm_id", "")]) :
                   /\ command_queue'[b] # <<>>
                   /\ command_queue'[b][Len(command_queue'[b])].command_type
                         = Get(c.parameters, "command_type", "")]_vars

\* C20: broadcast_command makes one task per member, in member order, each
\* with a command of the original's type and parameters and an id no other
\* task has; each task puts its command on its own member's queue and on no
\* other; the call returns when the puts are done, whatever the members have
\* executed, and the original command is the one it was called with.
C20_BroadcastOnePerMember ==
    [][/\ (call.op = "none" /\ call'.op = "broadcast")
          => LET c == call'.cmd
                 t == call'.tasks
                 members == swarm_bots[call'.swarm]
             IN /\ Len(t) = Len(members)
                /\ \A i \in DOMAIN t :
                      /\ t[i].bot = members[i]
                      /\ t[i].cmd.command_type = c.command_type
                      /\ t[i].cmd.filepath = c.filepath
                      /\ t[i].cmd.parameters = c.parameters
                /\ \A i, j \in DOMAIN t : i # j => t[i].cmd.command_id # t[j].cmd.command_id
                /\ command_queue' = command_queue
       /\ (call.op = "broadcast" /\ call'.op = "broadcast" /\ call' # call)
          => LET h == Head(call.tasks)
             IN /\ call'.tasks = Tail(call.tasks)
                /\ call'.cmd = call.cmd
                /\ command_queue'[h.bot] = Append(command_queue[h.bot], h.cmd)
                /\ \A b \in BotIds \ {h.bot} : command_queue'[b] = command_queue[b]
       /\ (call.op = "broadcast" /\ call'.op = "none")
          => /\ call.tasks = <<>>
             /\ returned'[Len(returned')].cmd = call.cmd
             /\ command_queue' = command_queue]_vars

\* C20 witness: a broadcast on a swarm of two members has returned; each
\* member's queue holds its one command, with different ids, and no member
\* has begun to execute anything.
C20_Witness ==
    /\ Len(swarm_bots["s1"]) = 2
    /\ \E i \in DOMAIN returned :
          /\ returned[i].op = "broadcast"
          /\ \A k \in DOMAIN swarm_bots["s1"] :
                LET b == swarm_bots["s1"][k]
                IN /\ Len(command_queue[b]) = 1
                   /\ command_queue[b][1].command_type = returned[i].cmd.command_type
                   /\ began[b] = <<>>
    /\ command_queue[swarm_bots["s1"][1]][1].command_id
          # command_queue[swarm_bots["s1"][2]][1].command_id

\* C21: a broadcast visits every listener that was in the set when it began;
\* when its loop is over, each of them has either received the message or
\* failed, the ones that failed leave the set and no other listener does.
C21_FailedListenerRemoved ==
    [][\A k \in CastIds :
          (casts[k].pc = "send" /\ casts'[k].pc = "done") =>
             /\ casts[k].delivered \cup casts[k].disconnected = casts[k].snapshot
             /\ casts[k].delivered \cap casts[k].disconnected = {}
             /\ websocket_clients' \cap casts[k].disconnected = {}
             /\ websocket_clients' = websocket_clients \ casts[k].disconnected]_vars

\* A broadcast is over in which one listener failed and left the set and
\* another received the message and is still in it.
C21_Witness ==
    \E k \in CastIds :
        /\ casts[k].pc = "done"
        /\ \E w \in casts[k].disconnected : w \notin websocket_clients
        /\ \E w \in casts[k].delivered : w \in websocket_clients /\ w \notin closed

\* The command names a bot or a swarm that the registries do not have.
NamesUnregistered(c) ==
    \/ /\ c.command_type \in {"start_bot", "stop_bot"}
       /\ Get(c.parameters, "bot_id", "") \notin Range(sub_bots)
    \/ /\ c.command_type \in {"start_swarm", "stop_swarm"}
       /\ Get(c.parameters, "swarm_id", "") \notin Range(swarms)
    \/ /\ c.command_type = "broadcast_to_swarm"
       /\ c.target_swarm \notin Range(swarms)

\* The command of the execute_command call a step makes.
Executed == IF call' # NoCall THEN call'.cmd ELSE returned'[Len(returned')].cmd

\* C22: a call of the Director's execute_command for a start or stop of an
\* unregistered bot or swarm, or for a broadcast to an unregistered swarm,
\* returns an outcome of status "error" in the same step, and leaves the bot
\* registry, the swarm registry, every bot's status and every bot's queue as
\* they were.
C22_UnregisteredIdIsAnError ==
    [][(next_id' = next_id + 1 /\ NamesUnregistered(Executed)) =>
          /\ call' = NoCall
          /\ Len(returned') = Len(returned) + 1
          /\ returned'[Len(returned')].status = "error"
          /\ UNCHANGED <<bots, sub_bots, swarms, swarm_bots, swarm_status>>
          /\ UNCHANGED <<status, is_running, loops, command_queue>>]_vars

\* With bots and a swarm registered, the third command, a start of an
\* unregistered bot, a stop of an unregistered swarm or a broadcast to an
\* unregistered swarm, has returned an error.
C22_Witness ==
    /\ sub_bots # <<>>
    /\ swarms # <<>>
    /\ \E i \in DOMAIN returned :
         /\ returned[i].status = "error"
         /\ returned[i].cmd.command_type \in {"start_bot", "stop_swarm", "broadcast_to_swarm"}
         /\ returned[i].cmd.command_id = 3

\* C23: while autonomy is disabled, the handling of an alert makes no call of
\* the scheduler and leaves the recovery queue and action_history as they were.
C23_DisabledAlertsSchedulesNothing ==
    [][\A t \in Threads :
          (/\ ~autonomy_enabled
           /\ thr[t].pc = "alerts"
           /\ thr[t].alerts # <<>>
           /\ thr'[t].alerts = Tail(thr[t].alerts)) =>
             /\ UNCHANGED <<recovery_actions, action_history, log>>
             /\ thr'[t].pc = "alerts"]_vars

\* With autonomy disabled, the alert of a snapshot with a critical CPU value
\* has been handled, and the scheduler was never called.
C23_Witness ==
    /\ ~autonomy_enabled
    /\ thr["api"].pc = "alerts"
    /\ thr["api"].m.cpu_usage > cpu_critical
    /\ thr["api"].alerts = <<>>
    /\ Events("schedule") = {}

\* C24: disable_autonomy() called while the monitor is active leaves
\* monitoring_active true and changes only autonomy_enabled.
C24_DisableKeepsMonitoring ==
    [][(autonomy_enabled /\ ~autonomy_enabled' /\ monitoring_active) =>
          /\ monitoring_active'
          /\ UNCHANGED <<health_history, recovery_actions, action_history, thr>>]_vars

\* A step is a call of op on the monitor.
Calling(op) == log' = Append(log, Event(op, Flag, now))

\* C25: start_monitoring() called while monitoring is active starts no thread
\* and changes no field; stop_monitoring() called while monitoring is not
\* active returns and leaves it inactive, no thread touched.
C25_StartIdempotentStopSafe ==
    [][/\ (Calling("start_monitoring") /\ monitoring_active) =>
             UNCHANGED <<monitoring_active, thr, health_history, autonomy_enabled,
                         recovery_actions, action_history>>
       /\ (Calling("stop_monitoring") /\ ~monitoring_active) =>
             /\ ~monitoring_active'
             /\ UNCHANGED <<thr, health_history, autonomy_enabled,
                            recovery_actions, action_history>>]_vars

\* stop_monitoring() was called while monitoring was not active, and then
\* start_monitoring() while it was active again.
C25_Witness ==
    /\ Len(log) = 2
    /\ log[1] = Event("stop_monitoring", "inactive", 0)
    /\ log[2] = Event("start_monitoring", "active", 0)
    /\ monitoring_active

\* C26: an error raised by the sampling of a tick never ends the monitoring
\* loop: no monitor thread is left by an exception.
C26_SamplingErrorKeepsLoop ==
    \A t \in MonThreads : ~(thr[t].pc = "none" /\ thr[t].exc # "")

\* The CPU values of the snapshots stored go up from each one to the next, or
\* are all the same.
Rising(hist) == \A i \in 1..(Len(hist) - 1) : hist[i].cpu_usage < hist[i + 1].cpu_usage
Flat(hist) == \A i \in 1..(Len(hist) - 1) : hist[i].cpu_usage = hist[i + 1].cpu_usage

\* An alert of the ticks so far was handed to the CPU recovery: with CPU values
\* far below the critical one, the alert of the steadily increasing trend.
TrendFired == \E i \in Events("schedule") : log[i].action_type = "HighCPUUsage"

\* C27: when 10 snapshots have been fed from an empty history, the trend alert
\* has fired on one of these ticks if their CPU values were strictly
\* increasing, and on none of them if they were all equal.
C27_TrendAlertWithinTenTicks ==
    (Len(health_history) = 10 /\ thr["api"].pc = "idle") =>
        /\ Rising(health_history) => TrendFired
        /\ Flat(health_history) => ~TrendFired

\* A step is a call of get_health_summary().
Summarizing == log' = Append(log, Event("get_health_summary", "", now))

\* C28: get_health_summary() on an empty history returns the dict whose only
\* key is "status", with the value "no_data", and changes neither the history,
\* nor the monitoring flag, nor any other field.
C28_EmptySummaryIsNoData ==
    [][(Summarizing /\ health_history = <<>>) =>
          /\ thr'["api"].result = [status |-> "no_data", keys |-> {"status"}]
          /\ thr'["api"].exc = ""
          /\ UNCHANGED <<health_history, monitoring_active, autonomy_enabled,
                         recovery_actions, action_history>>
          /\ \A t \in MonThreads : thr'[t] = thr[t]]_vars

\* A summary of the empty history has been returned.
C28_Witness ==
    /\ health_history = <<>>
    /\ thr["api"].result.status = "no_data"
    /\ \E i \in 1..Len(log) : log[i].op = "get_health_summary"

\* C29: whenever a service restart, a process restart or a rollback is drained
\* from the recovery queue, its outcome is no success, and the successes of
\* these actions in action_history are 0.
C29_RestartsAndRollbackDecline ==
    /\ \A t \in Threads :
          (thr[t].pc = "record" /\ thr[t].cur.action_type \in DeclinedTypes) => ~thr[t].success
    /\ \A a \in DeclinedTypes \cap DOMAIN action_history : action_history[a].successes = 0

\* C30: once the handling of a memory alert with autonomy enabled and no
\* earlier attempt is over, the memory cleanup has been executed and
\* action_history counts it as an attempt and as a success.
C30_MemoryAlertRecordedAsSuccess ==
    (/\ thr["api"].pc = "idle"
     /\ \E i \in Events("schedule") : log[i].action_type = "HighMemoryUsage") =>
        /\ "HighMemoryUsage" \in DOMAIN action_history
        /\ action_history["HighMemoryUsage"].attempts >= 1
        /\ action_history["HighMemoryUsage"].successes >= 1

\* C31: no step deletes the record of an action from action_history or makes
\* its attempts smaller.
C31_AttemptsNeverDecrease ==
    [][\A a \in DOMAIN action_history :
          /\ a \in DOMAIN action_history'
          /\ action_history'[a].attempts >= action_history[a].attempts]_vars

\* The record of an action has been counted up a second time, after a switch
\* of autonomy.
C31_Witness ==
    /\ \E a \in DOMAIN action_history : action_history[a].attempts = 2
    /\ ~autonomy_enabled

\* The threads inside _process_recovery_queue.
Draining == {t \in Threads : thr[t].pc \in {"drain", "record", "write"}}

\* C32: the queue is drained on one thread at a time, and no increment of
\* attempts is lost: every execution of an action that has been counted is
\* in its attempts.
C32_DrainsOneThreadAtATime ==
    /\ Cardinality(Draining) <= 1
    /\ \A a \in ActionTypes :
          Seen(action_history, a) = Cardinality(EventsOf("attempt", a))

\* The entry a first-in-first-out queue of priorities returns: the earliest
\* put among the entries of the least priority.
FifoIndex(q) ==
    CHOOSE i \in 1..Len(q) :
        \A j \in 1..Len(q) : \/ q[i].priority < q[j].priority
                              \/ (q[i].priority = q[j].priority /\ i <= j)

\* C33: every pop of the drain takes the entry of the least priority and,
\* among entries of that priority, the one put first, whatever their action
\* names.
C33_PopsFifoWithinPriority ==
    [][Len(recovery_actions') < Len(recovery_actions) =>
          recovery_actions' = RemoveAt(recovery_actions, FifoIndex(recovery_actions))]_vars

\* C34: a registered recovery action is enqueued under the priority it was
\* registered with (rollback_changes 6, restart_service 1, ...): so is every
\* entry the drain pops.
C34_EnqueuedUnderRegisteredPriority ==
    \A t \in Threads :
        (thr[t].pc = "record" /\ thr[t].cur.action_type \in DOMAIN RegisteredActions)
            => thr[t].cur.priority = RegisteredActions[thr[t].cur.action_type][1]

\* C35: the attempts recorded for a registered recovery action never exceed
\* the max_attempts it was registered with (rollback_changes: 1).
C35_AttemptsWithinMaxAttempts ==
    \A a \in DOMAIN action_history :
        a \in DOMAIN RegisteredActions =>
            action_history[a].attempts <= RegisteredActions[a][2]

\* C36: when start_all() or stop_all() returns or raises, the start or stop of
\* every member has been attempted and none is still under way, and a start
\* or stop that raised is reported to the caller.
C36_BarrierAllOrReport ==
    [][Len(returned') > Len(returned) =>
          /\ call.tasks = <<>>
          /\ call.pending = {}
          /\ call.raised <=> returned'[Len(returned')].status = "raised"]_vars

\* The monitor threads that have been started and have not ended.
AliveLoops == {t \in MonThreads : thr[t].pc # "none"}

C38_OwnEntryOwnOutcome ==
    call = NoCall =>
        /\ \A i \in DOMAIN returned :
              returned[i].op = "execute" =>
                 command_history[returned[i].entry].command_id = returned[i].cmd.command_id
        /\ \A i \in DOMAIN command_history :
              command_history[i].command_type \in CommandHandlers =>
                 command_history[i].status # "executing"

\* C39: an Agent that stop() has left stopped, with its running flag false,
\* stays stopped in the next state unless start() is called or another stop()
\* is under way: no step takes it to idle or active with the flag still false.
C39_StoppedStaysStopped ==
    [][\A b \in bots :
          (status[b] = "stopped" /\ ~is_running[b])
              => (status'[b] = "stopped" \/ is_running'[b] \/ cpu'.k = "stop")]_vars

\* C40: a command that names no target and whose delegation returns success
\* has been put on the queue of an Agent whose processing loop is running.
C40_DelegatesToRunningAgent ==
    [][Len(returned') > Len(returned) =>
          LET r == returned'[Len(returned')]
          IN (/\ r.op = "execute"
              /\ r.status = "success"
              /\ r.target # ""
              /\ r.cmd.target_bot = "")
                 => is_running'[r.target]]_vars
====
